---- MODULE Spec2Model ----
(***************************************************************************)
(* Conversation routing and escalation engine of the HayDay chat server    *)
(* (src/server.js): the message log, the keyword matcher, the three-tier   *)
(* send pipeline, admin takeover / respond, the admin session and         *)
(* the polling protocol, as a state machine over the JSON documents the    *)
(* handlers read and write.                                                *)
(*                                                                         *)
(* Text is a sequence of character codes: 0 is the space, 1..26 are a..z,  *)
(* 27..32 are the Turkish letters c-cedilla, soft g, dotless i, o-umlaut,  *)
(* s-cedilla, u-umlaut; an upper-case letter is its lower-case code + 100; *)
(* 140 is the dotted capital I and 41 the combining dot its lower-casing   *)
(* leaves behind.  Codes from 200 on stand for whole reply texts, whose    *)
(* wording plays no part in the routing.                                   *)
(*                                                                         *)
(* A confidence is an exact fraction [num, den] in lowest terms; a         *)
(* pattern's stored confidence is kept in hundredths.                      *)
(***************************************************************************)
EXTENDS Integers, Sequences, FiniteSets, TLC

----------------------------------------------------------------------------
(* Bounds of the model *)

\* the clock starts at 1 and stops advancing at MaxClock
MaxClock == 2
\* at most MaxRequests requests that append to the log are accepted
MaxRequests == 2
\* a pattern set given to the matcher holds at most MaxPatterns patterns
MaxPatterns == 2
\* a pattern is used at most MaxUsage times
MaxUsage == 3
\* sendAuthCode stores at most MaxCodes codes
MaxCodes == 2

----------------------------------------------------------------------------
(* Program constants *)

\* this.confidenceThreshold, in hundredths (0.7)
ConfidenceThreshold == 70

\* confidence recorded for a reply when the matcher's confidence is 0 (0.85)
DefaultReplyConfidence == 85

\* confidence of an admin message (1.0), in hundredths
AdminConfidence == 100

Null == [null |-> TRUE]

----------------------------------------------------------------------------
(* Fractions *)

RECURSIVE GCD(_, _)
GCD(a, b) == IF b = 0 THEN a ELSE GCD(b, a % b)

\* n / d in lowest terms (n >= 0, d > 0)
Frac(n, d) == LET g == GCD(n, d) IN [num |-> n \div g, den |-> d \div g]

\* 1 for 0
FracOne == [num |-> 1, den |-> 1]

FracZero == [num |-> 0, den |-> 1]

FracGT(x, y) == x.num * y.den > y.num * x.den
FracLT(x, y) == x.num * y.den < y.num * x.den
FracGE(x, y) == ~FracLT(x, y)

----------------------------------------------------------------------------
(* Text *)

\* String.prototype.toLowerCase on one character
LowerChar(c) ==
    IF c = 140 THEN <<9, 41>>
    ELSE IF c > 100 /\ c <= 132 THEN <<c - 100>>
    ELSE <<c>>

\* String.prototype.toLowerCase: character by character (the text is halved
\* so that texts of a thousand characters stay within the evaluator's depth)
RECURSIVE ToLowerCase(_)
ToLowerCase(s) ==
    IF s = <<>> THEN <<>>
    ELSE IF Len(s) = 1 THEN LowerChar(s[1])
    ELSE ToLowerCase(SubSeq(s, 1, Len(s) \div 2)) \o
         ToLowerCase(SubSeq(s, Len(s) \div 2 + 1, Len(s)))

\* String.prototype.includes: sub occurs in s as a contiguous substring
Includes(s, sub) ==
    \E i \in 0..(Len(s) - Len(sub)) :
        \A j \in 1..Len(sub) : s[i + j] = sub[j]

----------------------------------------------------------------------------
(* ChatBotBrain *)

\* the default patterns loadKnowledgeBase installs when the file holds none
DefaultKnowledgeBase ==
    << [keywords |-> << <<13,5,18,8,1,2,1>>, <<19,5,12,1,13>>, <<8,5,25>>, <<8,9>> >>,
        response |-> <<201>>, confidence |-> 90, usage |-> 0],
       [keywords |-> << <<1,12,20,29,14>>, <<16,1,18,1>>, <<20,18,1,14,19,6,5,18>> >>,
        response |-> <<202>>, confidence |-> 80, usage |-> 0],
       [keywords |-> << <<6,9,25,1,20>>, <<32,3,18,5,20>>, <<14,5,0,11,1,4,1,18>> >>,
        response |-> <<203>>, confidence |-> 80, usage |-> 0],
       [keywords |-> << <<4,5,16,15,12,1,13,1>>, <<1,28,29,12>>, <<1,13,2,1,18>> >>,
        response |-> <<204>>, confidence |-> 80, usage |-> 0],
       [keywords |-> << <<13,1,11,9,14,5>>, <<32,18,5,20,9,13>>, <<19,5,22,9,25,5>> >>,
        response |-> <<205>>, confidence |-> 80, usage |-> 0] >>

\* the inner loop of analyzeMessage: one point per keyword of the pattern
\* that the lower-cased message includes
KeywordScore(lowerMessage, pattern) ==
    Cardinality({k \in DOMAIN pattern.keywords :
                    Includes(lowerMessage, ToLowerCase(pattern.keywords[k]))})

\* (score / pattern.keywords.length) * pattern.confidence
WeightedConfidence(score, pattern) ==
    Frac(score * pattern.confidence, Len(pattern.keywords) * 100)

\* a later pattern of equal confidence replaces the best match
BeatsBestOrTies(confidence, highestScore) == FracGE(confidence, highestScore)

\* the test that lets a pattern replace the best match so far
BeatsBest(confidence, highestScore) == FracGT(confidence, highestScore)

\* the patterns are visited in array order, from pattern i on
RECURSIVE AnalyzeFrom(_, _, _, _)
AnalyzeFrom(lowerMessage, kb, i, best) ==
    IF i > Len(kb) THEN best
    ELSE LET pattern == kb[i]
             score == KeywordScore(lowerMessage, pattern)
             confidence == WeightedConfidence(score, pattern)
         IN  IF score > 0 /\ BeatsBest(confidence, best.highestScore)
             THEN AnalyzeFrom(lowerMessage, kb, i + 1,
                      [bestMatch |-> [calculatedConfidence |-> confidence] @@ pattern,
                       highestScore |-> confidence])
             ELSE AnalyzeFrom(lowerMessage, kb, i + 1, best)

\* escalation with <= for <
ShouldEscalateAtThreshold(highestScore) ==
    ~FracGT(highestScore, Frac(ConfidenceThreshold, 100))

\* highestScore < this.confidenceThreshold
ShouldEscalate(highestScore) == FracLT(highestScore, Frac(ConfidenceThreshold, 100))

AnalyzeMessage(message, kb) ==
    LET best == AnalyzeFrom(ToLowerCase(message), kb, 1,
                            [bestMatch |-> Null, highestScore |-> FracZero])
    IN  [match |-> best.bestMatch,
         confidence |-> best.highestScore,
         shouldEscalate |-> ShouldEscalate(best.highestScore)]

\* findIndex over the stringified keywords: the first pattern with these keywords
FindIndex(kb, keywords) ==
    IF \E i \in DOMAIN kb : kb[i].keywords = keywords
    THEN CHOOSE i \in DOMAIN kb :
            /\ kb[i].keywords = keywords
            /\ \A j \in 1..(i - 1) : kb[j].keywords # keywords
    ELSE 0

Min(a, b) == IF a < b THEN a ELSE b
Max(a, b) == IF a > b THEN a ELSE b

\* the confidence nudge of updatePattern, in hundredths
NudgedConfidence(confidence, feedback) ==
    IF feedback = "positive" THEN Min(100, confidence + 5)
    ELSE IF feedback = "negative" THEN Max(10, confidence - 5)
    ELSE confidence

\* the in-memory effect of updatePattern (the write of the file follows it)
UpdatePattern(kb, pattern, feedback) ==
    LET index == FindIndex(kb, pattern.keywords)
    IN  IF index # 0
        THEN [kb EXCEPT ![index] =
                [@ EXCEPT !.usage = @ + 1,
                          !.confidence = NudgedConfidence(@, feedback)]]
        ELSE kb

----------------------------------------------------------------------------
(* Messages and documents *)

Clients == {"c1", "c2"}

\* what an end user types: "Altın para transfer", "hi", "kargo"
UserTexts == { <<101,12,20,29,14,0,16,1,18,1,0,20,18,1,14,19,6,5,18>>,
               <<8,9>>,
               <<11,1,18,7,15>> }

\* the completion the text-completion service returns, and the apology
\* processMessage returns when the call fails
AiCompletionText == <<210>>
AiFallbackText == <<211>>
\* the greeting takeover appends
TakeoverGreeting == <<212>>
\* what the admin types
AdminTexts == { <<220>> }

\* confidence of the apology, in hundredths (0.3)
AiFallbackConfidence == 30

\* confidence processMessage gives a completion, in hundredths (0.85)
AiCompletionConfidence == 85

\* what becomes of openai.chat.completions.create: a completion, a rejection
\* (timeout, quota or network error raised by the client), or a result that
\* lacks its choices or its usage
AiOutcomes == {"completion", "rejected", "noChoices", "noUsage"}

\* what the await of openai.chat.completions.create settles to
AiCompletion(outcome) ==
    [rejected |-> outcome = "rejected",
     choices |-> IF outcome = "noChoices" THEN <<>>
                 ELSE << [message |-> [content |-> AiCompletionText]] >>,
     usage |-> IF outcome = "noUsage" THEN Null ELSE [total_tokens |-> 1]]

\* the body of the try block of processMessage: the value it returns, or
\* thrown when the await rejects or a property of undefined is read
TryProcessMessage(message, outcome) ==
    LET completion == AiCompletion(outcome)
    IN  IF completion.rejected \/ completion.choices = <<>> \/ completion.usage = Null
        THEN [thrown |-> TRUE, response |-> <<>>, confidence |-> FracZero,
              tokensUsed |-> 0]
        ELSE [thrown |-> FALSE, response |-> completion.choices[1].message.content,
              confidence |-> Frac(AiCompletionConfidence, 100),
              tokensUsed |-> completion.usage.total_tokens]

\* processMessage without its catch block
ProcessMessageUncaught(message, outcome) == TryProcessMessage(message, outcome)

\* AIProcessor.processMessage: the catch block turns every throw into the apology
ProcessMessage(message, outcome) ==
    LET tried == TryProcessMessage(message, outcome)
    IN  IF tried.thrown
        THEN [thrown |-> FALSE, response |-> AiFallbackText,
              confidence |-> Frac(AiFallbackConfidence, 100), tokensUsed |-> 0]
        ELSE tried

\* writeJSONFile: the document after the write, which fails without a trace
\* when ok is false (the error is logged and false returned)
Written(document, data, ok) == IF ok THEN data ELSE document

\* what fs.readFile yields of a document while fs.writeFile has truncated it
\* and not yet written it out: text that JSON.parse rejects
Unreadable == <<[unparsable |-> TRUE]>>

\* the try of readJSONFile succeeds
Readable(document) == document # Unreadable

\* a response of the server to request n
Response(n, status, body) == [request |-> n, status |-> status, body |-> body]

EmptyBucket == [total |-> 0, chatbot |-> 0, ai |-> 0, admin |-> 0]

\* 24 * 60 * 60 * 1000
DayLength == 86400000

\* moment().format('YYYY-MM-DD'): the calendar day of an instant
Today(t) == t \div DayLength

\* an update that counts the message in the total and under no role
RecordTotalOnly(analytics, day, role) ==
    LET bucket == IF day \in DOMAIN analytics.days
                  THEN analytics.days[day] ELSE EmptyBucket
        counted == [bucket EXCEPT !.total = @ + 1]
    IN  [analytics EXCEPT !.days =
            [d \in DOMAIN analytics.days \cup {day} |->
                IF d = day THEN counted ELSE analytics.days[d]]]

\* the read-modify part of the analytics update of send and respond
RecordRole(analytics, day, role) ==
    LET bucket == IF day \in DOMAIN analytics.days
                  THEN analytics.days[day] ELSE EmptyBucket
        counted == [bucket EXCEPT !.total = @ + 1, ![role] = @ + 1]
    IN  [analytics EXCEPT !.days =
            [d \in DOMAIN analytics.days \cup {day} |->
                IF d = day THEN counted ELSE analytics.days[d]]]

\* botAnalysis.confidence || 0.85
ReplyConfidence(confidence) ==
    IF confidence.num = 0 THEN Frac(DefaultReplyConfidence, 100) ELSE confidence

\* Every message carries, besides the fields the handlers give it, the
\* number of the request that appended it (request): an auxiliary field that
\* no handler reads, which tells apart two messages of equal content.

UserMessage(t, clientId, message, n) ==
    [timestamp |-> t, clientId |-> clientId, role |-> "user", content |-> message,
     request |-> n]

BotMessage(t, clientId, role, response, confidence, n) ==
    [timestamp |-> t, clientId |-> clientId, role |-> role, content |-> response,
     confidence |-> ReplyConfidence(confidence), request |-> n]

\* the greeting message of takeover (it carries no adminId)
GreetingMessage(t, conversationId, n) ==
    [timestamp |-> t, clientId |-> conversationId, role |-> "admin",
     content |-> TakeoverGreeting, confidence |-> Frac(AdminConfidence, 100),
     request |-> n]

\* the admin message that leaves the conversation out
AdminMessageToNobody(t, conversationId, message, adminId, n) ==
    [timestamp |-> t, clientId |-> "", role |-> "admin",
     content |-> message, confidence |-> Frac(AdminConfidence, 100),
     adminId |-> adminId, request |-> n]

AdminMessage(t, conversationId, message, adminId, n) ==
    [timestamp |-> t, clientId |-> conversationId, role |-> "admin",
     content |-> message, confidence |-> Frac(AdminConfidence, 100),
     adminId |-> adminId, request |-> n]

\* the takeover record of a conversation
TakeoverRecord(t, adminId) == [timestamp |-> t, adminId |-> adminId, status |-> "active"]

\* the assignment that leaves a record already there as it is
SetTakeoverIfAbsent(analytics, conversationId, record) ==
    [analytics EXCEPT !.adminTakeovers =
        [c \in DOMAIN analytics.adminTakeovers \cup {conversationId} |->
            IF c \in DOMAIN analytics.adminTakeovers
            THEN analytics.adminTakeovers[c] ELSE record]]

\* analytics.adminTakeovers[conversationId] = {...}
SetTakeover(analytics, conversationId, record) ==
    [analytics EXCEPT !.adminTakeovers =
        [c \in DOMAIN analytics.adminTakeovers \cup {conversationId} |->
            IF c = conversationId THEN record ELSE analytics.adminTakeovers[c]]]

\* the conversation has a takeover record with status active
ActiveTakeover(analytics, conversationId) ==
    /\ conversationId \in DOMAIN analytics.adminTakeovers
    /\ analytics.adminTakeovers[conversationId].status = "active"

\* ADMIN_TELEGRAM_ID and the bearer token of the admin's session
AdminTelegramId == "admin"
AdminToken == "t1"

\* 24 * 60 * 60 * 1000
SessionTTL == 86400000

\* the session verify-code stores for a token
NewSession(telegramId, t) ==
    [telegramId |-> telegramId, created |-> t, expires |-> t + SessionTTL]

\* names every object parsed from JSON inherits from Object.prototype
ObjectPrototype == {"constructor", "toString", "__proto__"}

\* the value of a property that is absent, as a telegramId
Undefined == "undefined"

\* sessions[token]: the session stored under the token, else the inherited
\* property of that name (a function or an object, with no fields of a
\* session), else undefined
SessionOf(sessions, token) ==
    IF token \in DOMAIN sessions THEN sessions[token]
    ELSE IF token \in ObjectPrototype THEN [inherited |-> token]
    ELSE Null

\* sessions[token].telegramId
TelegramIdOf(sessions, token) ==
    IF "telegramId" \in DOMAIN SessionOf(sessions, token)
    THEN SessionOf(sessions, token).telegramId
    ELSE Undefined

\* !sessions[token] || sessions[token].expires < Date.now()
\* (undefined < Date.now() is false)
SessionRejected(sessions, token, t) ==
    \/ SessionOf(sessions, token) = Null
    \/ /\ "expires" \in DOMAIN SessionOf(sessions, token)
       /\ SessionOf(sessions, token).expires < t

----------------------------------------------------------------------------
(* GET /api/chat/poll/:clientId *)

\* the after parameter of the query string: absent, or a number
Afters == {[given |-> FALSE]} \cup {[given |-> TRUE, value |-> t] : t \in 0..MaxClock}

\* parseInt(after) || 0
AfterTimestamp(after) == IF after.given THEN after.value ELSE 0

\* the filter without the clientId test
IsNewOfAnyClient(msg, clientId, afterTimestamp) == msg.timestamp > afterTimestamp

\* the filter with >= for >
IsNewOrEqual(msg, clientId, afterTimestamp) ==
    msg.clientId = clientId /\ msg.timestamp >= afterTimestamp

\* the filter of the poll handler
IsNew(msg, clientId, afterTimestamp) ==
    msg.clientId = clientId /\ msg.timestamp > afterTimestamp

RECURSIVE MaxTimestamp(_)
\* Math.max(...newMessages.map(m => m.timestamp)), of a non-empty list
MaxTimestamp(messages) ==
    IF Len(messages) = 1 THEN messages[1].timestamp
    ELSE Max(messages[1].timestamp, MaxTimestamp(Tail(messages)))

\* the timestamp of the first returned message for the largest
LastTimestampOfFirst(newMessages, afterTimestamp) ==
    IF Len(newMessages) > 0 THEN newMessages[1].timestamp ELSE afterTimestamp

\* newMessages.length > 0 ? Math.max(...) : afterTimestamp
LastTimestamp(newMessages, afterTimestamp) ==
    IF Len(newMessages) > 0 THEN MaxTimestamp(newMessages) ELSE afterTimestamp

\* the response of the poll handler
PollResponse(chatLog, clientId, after) ==
    LET afterTimestamp == AfterTimestamp(after)
        newMessages == SelectSeq(chatLog, LAMBDA msg : IsNew(msg, clientId, afterTimestamp))
    IN  [newMessages |-> newMessages,
         lastTimestamp |-> LastTimestamp(newMessages, afterTimestamp)]

----------------------------------------------------------------------------
(* State *)

VARIABLES
    now,                  \* Date.now()
    chatLogFile,          \* chat-log.json
    analyticsFile,        \* analytics.json
    knowledgeBaseFile,    \* knowledge-base.json
    adminSessionsFile,    \* admin-sessions.json
    knowledgeBase,        \* chatBot.knowledgeBase
    kbLoaded,             \* the constructor's loadKnowledgeBase has completed
    req,                  \* the requests in flight, by slot
    accepted,             \* the conversation of each appending request accepted so far
    polled,               \* the last poll request and the response it got
    lastMessageTimestamp, \* the widget's watermark
    received,             \* the messages the widget's polls have returned
    analyzed,             \* the last call of analyzeMessage and its result
    responses,            \* the responses sent so far
    authCodes,            \* telegramManager.authCodes
    codesIssued           \* the number of codes sendAuthCode has stored so far

vars == <<now, chatLogFile, analyticsFile, knowledgeBaseFile, adminSessionsFile,
          knowledgeBase, kbLoaded, req, accepted, polled, analyzed,
          lastMessageTimestamp, received, responses, authCodes, codesIssued>>

files == <<chatLogFile, analyticsFile, knowledgeBaseFile, adminSessionsFile>>
brain == <<knowledgeBase, kbLoaded>>
auth == <<authCodes, codesIssued>>
pollers == <<polled, lastMessageTimestamp, received, analyzed>>

Slots == {1, 2}

Idle == [kind |-> "idle", pc |-> "idle"]

NoPoll == [clientId |-> "none"]

NoCall == [message |-> <<>>]

\* the number of the request being accepted
NextRequest == Len(accepted) + 1

\* a new request takes the lowest free slot
FreeSlot(r) == req[r] = Idle /\ \A q \in Slots : q < r => req[q] # Idle

\* The server has started and the admin has logged in once: the session
\* document holds the session of that login.
Init ==
    /\ now = 1
    /\ chatLogFile = <<>>
    /\ analyticsFile = [days |-> <<>>, adminTakeovers |-> <<>>, feedback |-> <<>>]
    /\ knowledgeBaseFile = <<>>
    /\ adminSessionsFile = [t \in {AdminToken} |-> NewSession(AdminTelegramId, 1)]
    /\ knowledgeBase = <<>>
    /\ kbLoaded = FALSE
    /\ req = [r \in Slots |-> Idle]
    /\ accepted = <<>>
    /\ polled = NoPoll
    /\ lastMessageTimestamp = 0
    /\ received = {}
    /\ analyzed = NoCall
    /\ responses = {}
    /\ authCodes = <<>>
    /\ codesIssued = 0

\* time passes
Tick ==
    /\ now < MaxClock
    /\ now' = now + 1
    /\ UNCHANGED <<files, brain, req, accepted, pollers, responses, auth>>

\* loadKnowledgeBase as started by the constructor
LoadKnowledgeBase ==
    /\ ~kbLoaded
    /\ kbLoaded' = TRUE
    /\ IF knowledgeBaseFile = <<>>
       THEN /\ knowledgeBase' = DefaultKnowledgeBase
            /\ knowledgeBaseFile' = DefaultKnowledgeBase
       ELSE /\ knowledgeBase' = knowledgeBaseFile
            /\ UNCHANGED knowledgeBaseFile
    /\ UNCHANGED <<now, chatLogFile, analyticsFile, adminSessionsFile, req, accepted,
                   pollers, responses, auth>>

----------------------------------------------------------------------------
(* POST /api/chat/send *)

\* the test without the threshold
BotHandlesAnyMatch(botAnalysis) == botAnalysis.match # Null

\* !botAnalysis.shouldEscalate && botAnalysis.match: the chatbot tier answers
BotHandles(botAnalysis) == ~botAnalysis.shouldEscalate /\ botAnalysis.match # Null

\* max of body('message').isLength
MaxMessageLength == 1000

\* the conversations stand for client ids in UUID form; a request may also
\* carry none, or one that is no UUID
SendClientIds == Clients \cup {Undefined, "visitor-7"}

\* body('clientId').isUUID()
IsUUID(clientId) == clientId \in Clients

\* a length check without the upper limit
IsLengthAtLeastOne(message) == Len(message) >= 1

\* body('message').isLength({ min: 1, max: 1000 }); a missing message is
\* checked as the empty string
IsLength(message) == Len(message) >= 1 /\ Len(message) <= MaxMessageLength

\* errors.array()[0].msg: the error of the first check that failed
ValidationError(clientId, message) ==
    Response(0, 400,
             [error |-> IF ~IsUUID(clientId) THEN "Invalid client ID"
                        ELSE "Message must be 1-1000 characters"])

\* the request fails validation and is answered with 400 before the handler
\* reads anything
SendRejected(clientId, message) ==
    /\ ~(IsUUID(clientId) /\ IsLength(message))
    /\ responses' = responses \cup {ValidationError(clientId, message)}
    /\ UNCHANGED <<now, files, brain, req, accepted, pollers, auth>>

\* the request passes validation, reads the log, appends the user message
\* and runs the matcher;
\* it then waits either for the pattern write or for the completion service.
\* kbAtAnalysis (the pattern set the matcher ran on) and takenOver (whether
\* the conversation had an active takeover record when the request was
\* accepted) are auxiliary: the handler reads neither.
Send(r, clientId, message) ==
    /\ IsUUID(clientId) /\ IsLength(message)
    /\ FreeSlot(r)
    /\ Len(accepted) < MaxRequests
    /\ accepted' = Append(accepted, clientId)
    /\ LET chatLog == Append(chatLogFile, UserMessage(now, clientId, message, NextRequest))
           botAnalysis == AnalyzeMessage(message, knowledgeBase)
       IN  IF BotHandles(botAnalysis)
           THEN /\ knowledgeBase' = UpdatePattern(knowledgeBase, botAnalysis.match, "positive")
                /\ req' = [req EXCEPT ![r] =
                      [kind |-> "send", pc |-> "writeKnowledgeBase", n |-> NextRequest,
                       clientId |-> clientId, message |-> message,
                       chatLog |-> chatLog, botAnalysis |-> botAnalysis,
                       kbAtAnalysis |-> knowledgeBase,
                       takenOver |-> ActiveTakeover(analyticsFile, clientId),
                       response |-> botAnalysis.match.response, role |-> "chatbot",
                       kbData |-> knowledgeBase']]
           ELSE /\ UNCHANGED knowledgeBase
                /\ req' = [req EXCEPT ![r] =
                      [kind |-> "send", pc |-> "aiCall", n |-> NextRequest,
                       clientId |-> clientId, message |-> message,
                       chatLog |-> chatLog, botAnalysis |-> botAnalysis,
                       kbAtAnalysis |-> knowledgeBase,
                       takenOver |-> ActiveTakeover(analyticsFile, clientId)]]
    /\ UNCHANGED <<now, files, kbLoaded, pollers, responses, auth>>

\* the pattern write of updatePattern lands; the reply is appended in memory
SendKnowledgeBaseWritten(r, ok) ==
    /\ req[r].kind = "send" /\ req[r].pc = "writeKnowledgeBase"
    /\ knowledgeBaseFile' = Written(knowledgeBaseFile, req[r].kbData, ok)
    /\ req' = [req EXCEPT ![r] =
          [@ EXCEPT !.pc = "writeChatLog",
                    !.chatLog = Append(@, BotMessage(now, req[r].clientId, req[r].role,
                                       req[r].response, req[r].botAnalysis.confidence,
                                       req[r].n))]]
    /\ UNCHANGED <<now, chatLogFile, analyticsFile, adminSessionsFile, brain, accepted,
                   pollers, responses, auth>>

\* processMessage returns, whatever became of the call to the completion service
SendAiDone(r, outcome) ==
    /\ req[r].kind = "send" /\ req[r].pc = "aiCall"
    /\ LET aiResult == ProcessMessage(req[r].message, outcome)
       IN  req' = [req EXCEPT ![r] =
              [response |-> aiResult.response, role |-> "ai", aiResult |-> aiResult,
               aiFailed |-> outcome # "completion"] @@
              [@ EXCEPT !.pc = "writeChatLog",
                        !.chatLog = Append(@, BotMessage(now, req[r].clientId, "ai",
                                           aiResult.response, req[r].botAnalysis.confidence,
                                           req[r].n))]]
    /\ UNCHANGED <<now, files, brain, accepted, pollers, responses, auth>>

\* writeJSONFile(FILES.chatLog, chatLog) lands
SendWriteChatLog(r, ok) ==
    /\ req[r].kind = "send" /\ req[r].pc = "writeChatLog"
    /\ chatLogFile' = Written(chatLogFile, req[r].chatLog, ok)
    /\ req' = [req EXCEPT ![r].pc = "readAnalytics"]
    /\ UNCHANGED <<now, analyticsFile, knowledgeBaseFile, adminSessionsFile, brain,
                   accepted, pollers, responses, auth>>

\* the analytics document is read and today's bucket counted up in memory
SendReadAnalytics(r) ==
    /\ req[r].kind = "send" /\ req[r].pc = "readAnalytics"
    /\ req' = [req EXCEPT ![r] =
          [analytics |-> RecordRole(analyticsFile, Today(now), req[r].role)] @@
          [@ EXCEPT !.pc = "writeAnalytics"]]
    /\ UNCHANGED <<now, files, brain, accepted, pollers, responses, auth>>

\* writeJSONFile(FILES.analytics, analytics) lands
SendWriteAnalytics(r, ok) ==
    /\ req[r].kind = "send" /\ req[r].pc = "writeAnalytics"
    /\ analyticsFile' = Written(analyticsFile, req[r].analytics, ok)
    /\ req' = [req EXCEPT ![r].pc = "notify"]
    /\ UNCHANGED <<now, chatLogFile, knowledgeBaseFile, adminSessionsFile, brain,
                   accepted, pollers, responses, auth>>

\* res.json({ reply, role, confidence: botAnalysis.confidence || 0.85,
\* timestamp: Date.now() }): what the send in slot r answers at time t
SendBody(r, t) ==
    [reply |-> req[r].response, role |-> req[r].role,
     confidence |-> ReplyConfidence(req[r].botAnalysis.confidence),
     timestamp |-> t]

\* a handler that answers 500 when the push did not go through
SendNotifiedSurfacing(r, ok) ==
    /\ req[r].kind = "send" /\ req[r].pc = "notify"
    /\ responses' = responses \cup
          {IF ok THEN Response(req[r].n, 200, SendBody(r, now))
                 ELSE Response(req[r].n, 500, [reply |-> <<>>, role |-> "system"])}
    /\ req' = [req EXCEPT ![r] = Idle]
    /\ UNCHANGED <<now, files, brain, accepted, pollers, auth>>

\* notifyNewMessage returns (whether or not the push went through) and the
\* reply is sent to the caller
SendNotified(r, ok) ==
    /\ req[r].kind = "send" /\ req[r].pc = "notify"
    /\ responses' = responses \cup
          {Response(req[r].n, 200, SendBody(r, now))}
    /\ req' = [req EXCEPT ![r] = Idle]
    /\ UNCHANGED <<now, files, brain, accepted, pollers, auth>>

----------------------------------------------------------------------------
(* POST /api/admin/takeover *)

\* the session is checked, the analytics document read and the record set in memory
Takeover(r, conversationId, token) ==
    /\ FreeSlot(r)
    /\ Len(accepted) < MaxRequests
    /\ accepted' = Append(accepted, conversationId)
    /\ ~SessionRejected(adminSessionsFile, token, now)
    /\ req' = [req EXCEPT ![r] =
          [kind |-> "takeover", pc |-> "writeAnalytics", n |-> NextRequest,
           clientId |-> conversationId,
           analytics |-> SetTakeover(analyticsFile, conversationId,
                            TakeoverRecord(now, TelegramIdOf(adminSessionsFile, token)))]]
    /\ UNCHANGED <<now, files, brain, pollers, responses, auth>>

\* the analytics write lands
TakeoverWriteAnalytics(r, ok) ==
    /\ req[r].kind = "takeover" /\ req[r].pc = "writeAnalytics"
    /\ analyticsFile' = Written(analyticsFile, req[r].analytics, ok)
    /\ req' = [req EXCEPT ![r].pc = "readChatLog"]
    /\ UNCHANGED <<now, chatLogFile, knowledgeBaseFile, adminSessionsFile, brain,
                   accepted, pollers, responses, auth>>

\* the log is read and the greeting appended in memory
TakeoverReadChatLog(r) ==
    /\ req[r].kind = "takeover" /\ req[r].pc = "readChatLog"
    /\ req' = [req EXCEPT ![r] =
          [chatLog |-> Append(chatLogFile,
                          GreetingMessage(now, req[r].clientId, req[r].n))] @@
          [@ EXCEPT !.pc = "writeChatLog"]]
    /\ UNCHANGED <<now, files, brain, accepted, pollers, responses, auth>>

\* the log write lands and the request is answered
TakeoverWriteChatLog(r, ok) ==
    /\ req[r].kind = "takeover" /\ req[r].pc = "writeChatLog"
    /\ chatLogFile' = Written(chatLogFile, req[r].chatLog, ok)
    /\ responses' = responses \cup
          {Response(req[r].n, 200, [success |-> TRUE, message |-> "Conversation taken over"])}
    /\ req' = [req EXCEPT ![r] = Idle]
    /\ UNCHANGED <<now, analyticsFile, knowledgeBaseFile, adminSessionsFile, brain,
                   accepted, pollers, auth>>

----------------------------------------------------------------------------
(* POST /api/admin/respond *)

\* the session is checked, the log read and the admin message appended in memory
Respond(r, conversationId, message, token) ==
    /\ FreeSlot(r)
    /\ Len(accepted) < MaxRequests
    /\ accepted' = Append(accepted, conversationId)
    /\ ~SessionRejected(adminSessionsFile, token, now)
    /\ req' = [req EXCEPT ![r] =
          [kind |-> "respond", pc |-> "writeChatLog", n |-> NextRequest,
           clientId |-> conversationId, role |-> "admin",
           chatLog |-> Append(chatLogFile,
                          AdminMessage(now, conversationId, message,
                                       TelegramIdOf(adminSessionsFile, token),
                                       NextRequest))]]
    /\ UNCHANGED <<now, files, brain, pollers, responses, auth>>

\* the log write lands
RespondWriteChatLog(r, ok) ==
    /\ req[r].kind = "respond" /\ req[r].pc = "writeChatLog"
    /\ chatLogFile' = Written(chatLogFile, req[r].chatLog, ok)
    /\ req' = [req EXCEPT ![r].pc = "readAnalytics"]
    /\ UNCHANGED <<now, analyticsFile, knowledgeBaseFile, adminSessionsFile, brain,
                   accepted, pollers, responses, auth>>

\* the analytics document is read and today's admin counter raised in memory
RespondReadAnalytics(r) ==
    /\ req[r].kind = "respond" /\ req[r].pc = "readAnalytics"
    /\ req' = [req EXCEPT ![r] =
          [analytics |-> RecordRole(analyticsFile, Today(now), "admin")] @@
          [@ EXCEPT !.pc = "writeAnalytics"]]
    /\ UNCHANGED <<now, files, brain, accepted, pollers, responses, auth>>

\* the analytics write lands and the request is answered
RespondWriteAnalytics(r, ok) ==
    /\ req[r].kind = "respond" /\ req[r].pc = "writeAnalytics"
    /\ analyticsFile' = Written(analyticsFile, req[r].analytics, ok)
    /\ responses' = responses \cup
          {Response(req[r].n, 200,
                    [success |-> TRUE, message |-> "Message sent",
                     timestamp |-> req[r].chatLog[Len(req[r].chatLog)].timestamp])}
    /\ req' = [req EXCEPT ![r] = Idle]
    /\ UNCHANGED <<now, chatLogFile, knowledgeBaseFile, adminSessionsFile, brain,
                   accepted, pollers, auth>>

----------------------------------------------------------------------------
(* Polling *)

\* the poll handler serves a request: the log is read and filtered
Poll(clientId, after) ==
    /\ Readable(chatLogFile)
    /\ polled' = [clientId |-> clientId, after |-> after,
                  data |-> PollResponse(chatLogFile, clientId, after)]
    /\ UNCHANGED <<now, files, brain, req, accepted, lastMessageTimestamp, received,
                   analyzed, responses, auth>>

\* the conversation of the widget
WidgetClient == "c1"

\* one round of startBackgroundPolling: the widget asks for what is newer
\* than its watermark and, when messages come back, moves the watermark to
\* the lastTimestamp of the response
WidgetPoll ==
    LET after == [given |-> TRUE, value |-> lastMessageTimestamp]
        data == PollResponse(chatLogFile, WidgetClient, after)
    IN  /\ received' = received \cup {data.newMessages[i] : i \in DOMAIN data.newMessages}
        /\ lastMessageTimestamp' =
               IF Len(data.newMessages) > 0 THEN data.lastTimestamp
               ELSE lastMessageTimestamp
        /\ UNCHANGED <<now, files, brain, req, accepted, polled, analyzed, responses, auth>>

----------------------------------------------------------------------------
(* Specifications *)

SendSteps(r) ==
    \/ SendKnowledgeBaseWritten(r, TRUE)
    \/ \E outcome \in {"completion", "rejected"} : SendAiDone(r, outcome)
    \/ SendWriteChatLog(r, TRUE)
    \/ SendReadAnalytics(r)
    \/ SendWriteAnalytics(r, TRUE)
    \/ \E ok \in BOOLEAN : SendNotified(r, ok)

TakeoverSteps(r) ==
    \/ TakeoverWriteAnalytics(r, TRUE)
    \/ TakeoverReadChatLog(r)
    \/ TakeoverWriteChatLog(r, TRUE)

RespondSteps(r) ==
    \/ RespondWriteChatLog(r, TRUE)
    \/ RespondReadAnalytics(r)
    \/ RespondWriteAnalytics(r, TRUE)

\* Requests interleave at their suspension points; the widget polls.
Next ==
    \/ Tick
    \/ LoadKnowledgeBase
    \/ \E r \in Slots, c \in Clients, m \in UserTexts : Send(r, c, m)
    \/ \E r \in Slots : SendSteps(r)
    \/ \E r \in Slots, c \in Clients : Takeover(r, c, AdminToken)
    \/ \E r \in Slots : TakeoverSteps(r)
    \/ \E r \in Slots, c \in Clients, m \in AdminTexts : Respond(r, c, m, AdminToken)
    \/ \E r \in Slots : RespondSteps(r)
    \/ WidgetPoll

Spec == Init /\ [][Next]_vars

\* One request at a time: a request is accepted only when none is in flight.
NoneInFlight == \A r \in Slots : req[r] = Idle

SerialNext ==
    \/ Tick
    \/ LoadKnowledgeBase
    \/ NoneInFlight /\ \E c \in Clients, m \in UserTexts : Send(1, c, m)
    \/ SendSteps(1)
    \/ NoneInFlight /\ \E c \in Clients : Takeover(1, c, AdminToken)
    \/ TakeoverSteps(1)
    \/ NoneInFlight /\ \E c \in Clients, m \in AdminTexts : Respond(1, c, m, AdminToken)
    \/ RespondSteps(1)

SpecSerial == Init /\ [][SerialNext]_vars

\* The send pipeline on its own: users send, one request at a time, to
\* conversations the admin may have taken over before; the clock stands.
SendNext ==
    \/ LoadKnowledgeBase
    \/ NoneInFlight /\ \E c \in Clients, m \in UserTexts : Send(1, c, m)
    \/ SendSteps(1)
    \/ NoneInFlight /\ \E c \in Clients : Takeover(1, c, AdminToken)
    \/ TakeoverSteps(1)

SpecSend == Init /\ [][SendNext]_vars

\* The send pipeline with its collaborators failing: the completion service
\* answers, rejects or answers without choices or usage, the push to the
\* admin goes through or not; one request at a time, the clock stands.
UpstreamNext ==
    \/ LoadKnowledgeBase
    \/ NoneInFlight /\ \E c \in Clients, m \in UserTexts : Send(1, c, m)
    \/ SendKnowledgeBaseWritten(1, TRUE)
    \/ \E outcome \in AiOutcomes : SendAiDone(1, outcome)
    \/ SendWriteChatLog(1, TRUE)
    \/ SendReadAnalytics(1)
    \/ SendWriteAnalytics(1, TRUE)
    \/ \E ok \in BOOLEAN : SendNotified(1, ok)

SpecUpstream == Init /\ [][UpstreamNext]_vars

\* The steps of a send that the server takes by itself: each file read or
\* write it awaits is answered by the file system.
SendOwnSteps ==
    \/ SendKnowledgeBaseWritten(1, TRUE)
    \/ SendWriteChatLog(1, TRUE)
    \/ SendReadAnalytics(1)
    \/ SendWriteAnalytics(1, TRUE)

\* The send handler awaiting its collaborators: the server's own steps are
\* taken whenever they stay possible; the completion call and the
\* notification are awaited with no timer beside them, so the handler goes
\* on only if and when the collaborator settles the promise.
SpecAwait == Init /\ [][UpstreamNext]_vars /\ WF_vars(SendOwnSteps)

\* The handlers over a store whose writes may fail: one request at a time,
\* the collaborators answer, the clock stands.
FaultyNext ==
    \/ LoadKnowledgeBase
    \/ NoneInFlight /\ \E c \in Clients, m \in UserTexts : Send(1, c, m)
    \/ \E ok \in BOOLEAN : SendKnowledgeBaseWritten(1, ok)
    \/ SendAiDone(1, "completion")
    \/ \E ok \in BOOLEAN : SendWriteChatLog(1, ok)
    \/ SendReadAnalytics(1)
    \/ \E ok \in BOOLEAN : SendWriteAnalytics(1, ok)
    \/ SendNotified(1, TRUE)
    \/ NoneInFlight /\ \E c \in Clients : Takeover(1, c, AdminToken)
    \/ \E ok \in BOOLEAN : TakeoverWriteAnalytics(1, ok)
    \/ TakeoverReadChatLog(1)
    \/ \E ok \in BOOLEAN : TakeoverWriteChatLog(1, ok)
    \/ NoneInFlight /\ \E c \in Clients, m \in AdminTexts : Respond(1, c, m, AdminToken)
    \/ \E ok \in BOOLEAN : RespondWriteChatLog(1, ok)
    \/ RespondReadAnalytics(1)
    \/ \E ok \in BOOLEAN : RespondWriteAnalytics(1, ok)

SpecFaulty == Init /\ [][FaultyNext]_vars

\* The log as the poll handler meets it: users send a text no pattern
\* matches and the completion service answers, the admin responds, one
\* request at a time, and any client polls with any watermark.
UnmatchedText == <<11,1,18,7,15>>

PollNext ==
    \/ Tick
    \/ NoneInFlight /\ \E c \in Clients : Send(1, c, UnmatchedText)
    \/ SendAiDone(1, "completion")
    \/ SendWriteChatLog(1, TRUE)
    \/ SendReadAnalytics(1)
    \/ SendWriteAnalytics(1, TRUE)
    \/ SendNotified(1, TRUE)
    \/ NoneInFlight /\ \E c \in Clients, m \in AdminTexts : Respond(1, c, m, AdminToken)
    \/ RespondSteps(1)
    \/ \E c \in Clients, a \in Afters : Poll(c, a)

SpecPoll == Init /\ [][PollNext]_vars

----------------------------------------------------------------------------
(* The matcher on its own *)

\* patterns over the letters a, b, c: keywords and stored confidence
\*   1: ["a"] 0.4      2: ["a", "b"] 0.8     3: ["A", "ab"] 0.8
\*   4: ["b"] 0        5: ["c"] 0.9          6: ["d"] 0.7
MatcherPatterns ==
    { [keywords |-> << <<1>> >>, response |-> <<231>>, confidence |-> 40, usage |-> 0],
      [keywords |-> << <<1>>, <<2>> >>, response |-> <<232>>, confidence |-> 80, usage |-> 0],
      [keywords |-> << <<101>>, <<1,2>> >>, response |-> <<233>>, confidence |-> 80, usage |-> 0],
      [keywords |-> << <<2>> >>, response |-> <<234>>, confidence |-> 0, usage |-> 0],
      [keywords |-> << <<3>> >>, response |-> <<235>>, confidence |-> 90, usage |-> 0],
      [keywords |-> << <<4>> >>, response |-> <<236>>, confidence |-> 70, usage |-> 0] }

\* the messages "a", "b", "A", "ab", "aB", "ba", "c", "d", "e"
MatcherTexts ==
    { <<1>>, <<2>>, <<101>>, <<1,2>>, <<1,102>>, <<2,1>>, <<3>>, <<4>>, <<5>> }

\* the pattern sets knowledge-base.json may hold when it is loaded
MatcherKnowledgeBases == UNION { [1..n -> MatcherPatterns] : n \in 0..MaxPatterns }

MatcherInit ==
    /\ now = 1
    /\ chatLogFile = <<>>
    /\ analyticsFile = [days |-> <<>>, adminTakeovers |-> <<>>, feedback |-> <<>>]
    /\ knowledgeBase \in MatcherKnowledgeBases
    /\ knowledgeBaseFile = knowledgeBase
    /\ adminSessionsFile = [t \in {AdminToken} |-> NewSession(AdminTelegramId, 1)]
    /\ kbLoaded = TRUE
    /\ req = [r \in Slots |-> Idle]
    /\ accepted = <<>>
    /\ polled = NoPoll
    /\ lastMessageTimestamp = 0
    /\ received = {}
    /\ analyzed = NoCall
    /\ responses = {}
    /\ authCodes = <<>>
    /\ codesIssued = 0

\* a matcher that counts the use of the pattern it matched
AnalyzeCountingUsage(message) ==
    LET result == AnalyzeMessage(message, knowledgeBase)
    IN  /\ analyzed' = [message |-> message, kb |-> knowledgeBase, result |-> result]
        /\ knowledgeBase' = IF result.match = Null THEN knowledgeBase
                            ELSE UpdatePattern(knowledgeBase, result.match, "neutral")
        /\ UNCHANGED <<now, files, kbLoaded, req, accepted, polled, lastMessageTimestamp,
                       received, responses, auth>>

\* chatBot.analyzeMessage(message); kb, the pattern set it ran on, is auxiliary
Analyze(message) ==
    /\ analyzed' = [message |-> message, kb |-> knowledgeBase,
                    result |-> AnalyzeMessage(message, knowledgeBase)]
    /\ UNCHANGED <<now, files, brain, req, accepted, polled, lastMessageTimestamp,
                   received, responses, auth>>

MatcherNext == \E m \in MatcherTexts : Analyze(m)

SpecMatcher == MatcherInit /\ [][MatcherNext]_vars

----------------------------------------------------------------------------
(* updatePattern on its own *)

\* stored confidences, in hundredths, that training (0 to 1) and earlier
\* nudges can leave in a pattern
UsageConfidences == {0, 5, 10, 55, 98, 100}

\* patterns with the keywords ["a"], of any of these confidences, and ["b"]
UsagePatterns ==
    { [keywords |-> << <<1>> >>, response |-> <<231>>, confidence |-> c, usage |-> 0] :
          c \in UsageConfidences }
    \cup { [keywords |-> << <<2>> >>, response |-> <<234>>, confidence |-> 80, usage |-> 0] }

\* the pattern sets: one pattern, or two
UsageKnowledgeBases == UNION { [1..n -> UsagePatterns] : n \in {1, 2} }

Feedbacks == {"positive", "negative", "neutral"}

UsageInit ==
    /\ now = 1
    /\ chatLogFile = <<>>
    /\ analyticsFile = [days |-> <<>>, adminTakeovers |-> <<>>, feedback |-> <<>>]
    /\ knowledgeBase \in UsageKnowledgeBases
    /\ knowledgeBaseFile = knowledgeBase
    /\ adminSessionsFile = [t \in {AdminToken} |-> NewSession(AdminTelegramId, 1)]
    /\ kbLoaded = TRUE
    /\ req = [r \in Slots |-> Idle]
    /\ accepted = <<>>
    /\ polled = NoPoll
    /\ lastMessageTimestamp = 0
    /\ received = {}
    /\ analyzed = NoCall
    /\ responses = {}
    /\ authCodes = <<>>
    /\ codesIssued = 0

\* chatBot.updatePattern(pattern, feedback) with the i-th pattern of the set:
\* the pattern found is changed in memory and the write of the file begins.
\* index, feedback, kbBefore (the set before the call) are auxiliary.
RecordUsage(i, feedback) ==
    /\ req[1] = Idle
    /\ i \in DOMAIN knowledgeBase
    /\ \A j \in DOMAIN knowledgeBase : knowledgeBase[j].usage < MaxUsage
    /\ knowledgeBase' = UpdatePattern(knowledgeBase, knowledgeBase[i], feedback)
    /\ req' = [req EXCEPT ![1] =
          [kind |-> "recordUsage", pc |-> "writeKnowledgeBase",
           index |-> FindIndex(knowledgeBase, knowledgeBase[i].keywords),
           feedback |-> feedback, kbBefore |-> knowledgeBase,
           kbData |-> knowledgeBase']]
    /\ UNCHANGED <<now, files, kbLoaded, accepted, pollers, responses, auth>>

\* writeJSONFile(FILES.knowledgeBase, this.knowledgeBase) lands and the call returns
RecordUsageWritten ==
    /\ req[1].kind = "recordUsage" /\ req[1].pc = "writeKnowledgeBase"
    /\ knowledgeBaseFile' = req[1].kbData
    /\ req' = [req EXCEPT ![1].pc = "returned"]
    /\ UNCHANGED <<now, chatLogFile, analyticsFile, adminSessionsFile, brain, accepted,
                   pollers, responses, auth>>

\* the caller goes on
RecordUsageReturned ==
    /\ req[1].kind = "recordUsage" /\ req[1].pc = "returned"
    /\ req' = [req EXCEPT ![1] = Idle]
    /\ UNCHANGED <<now, files, brain, accepted, pollers, responses, auth>>

UsageNext ==
    \/ \E i \in 1..2, f \in Feedbacks : RecordUsage(i, f)
    \/ RecordUsageWritten
    \/ RecordUsageReturned

SpecUsage == UsageInit /\ [][UsageNext]_vars

----------------------------------------------------------------------------
(* What the matcher is to compute, stated without the loop *)

\* the keywords of the pattern that occur in the message, case ignored
Hits(message, pattern) ==
    {k \in DOMAIN pattern.keywords :
        Includes(ToLowerCase(message), ToLowerCase(pattern.keywords[k]))}

\* (keywords present / keywords of the pattern) x pattern.confidence
Weighted(message, pattern) ==
    Frac(Cardinality(Hits(message, pattern)) * pattern.confidence,
         Len(pattern.keywords) * 100)

\* the largest weighted confidence over the patterns of a non-empty set
MaxWeighted(message, kb) ==
    LET ws == {Weighted(message, kb[i]) : i \in DOMAIN kb}
    IN  CHOOSE w \in ws : \A v \in ws : FracGE(w, v)

\* the first pattern, in the order of the set, that attains the maximum
FirstAttaining(message, kb) ==
    CHOOSE i \in DOMAIN kb :
        /\ Weighted(message, kb[i]) = MaxWeighted(message, kb)
        /\ \A j \in 1..(i - 1) : Weighted(message, kb[j]) # MaxWeighted(message, kb)

\* the match handed back is this pattern (with calculatedConfidence added)
IsPattern(match, pattern) ==
    /\ match # Null
    /\ match.keywords = pattern.keywords
    /\ match.response = pattern.response
    /\ match.confidence = pattern.confidence
    /\ match.usage = pattern.usage

----------------------------------------------------------------------------
(* C10 *)

\* C10 as stated: the confidence analyzeMessage returns is the maximum
\* weighted confidence over the patterns, and its match is the first pattern,
\* in pattern-set order, that attains the maximum.
C10_MatchIsFirstMaximal ==
    (analyzed # NoCall /\ analyzed.kb # <<>>) =>
        /\ analyzed.result.confidence = MaxWeighted(analyzed.message, analyzed.kb)
        /\ IsPattern(analyzed.result.match,
                     analyzed.kb[FirstAttaining(analyzed.message, analyzed.kb)])

\* C10 as amended: the confidence analyzeMessage returns is the maximum
\* weighted confidence over the patterns; when that maximum is above 0 the
\* match is the first pattern, in pattern-set order, that attains it, and
\* when it is 0 there is no match.
C10_MatchIsFirstMaximalIfPositive ==
    (analyzed # NoCall /\ analyzed.kb # <<>>) =>
        LET best == MaxWeighted(analyzed.message, analyzed.kb)
        IN  /\ analyzed.result.confidence = best
            /\ IF best.num > 0
               THEN IsPattern(analyzed.result.match,
                        analyzed.kb[FirstAttaining(analyzed.message, analyzed.kb)])
               ELSE analyzed.result.match = Null

\* two different patterns tie for the maximum and the first of them is the match
C10_Witness ==
    /\ analyzed # NoCall
    /\ Len(analyzed.kb) = 2
    /\ analyzed.kb[1] # analyzed.kb[2]
    /\ Weighted(analyzed.message, analyzed.kb[1]) = Weighted(analyzed.message, analyzed.kb[2])
    /\ analyzed.result.confidence.num > 0
    /\ IsPattern(analyzed.result.match, analyzed.kb[1])

----------------------------------------------------------------------------
(* What a poll is to return, stated without the filter *)

\* the positions of the log a poll of clientId with watermark t is to return
Due(chatLog, clientId, t) ==
    {i \in DOMAIN chatLog : chatLog[i].clientId = clientId /\ chatLog[i].timestamp > t}

\* the k-th of these positions, in log order
KthDue(chatLog, clientId, t, k) ==
    CHOOSE i \in Due(chatLog, clientId, t) :
        Cardinality({j \in Due(chatLog, clientId, t) : j <= i}) = k

\* messages are exactly the due messages of the log, each once, in log order
ExactlyTheDue(messages, chatLog, clientId, t) ==
    /\ Len(messages) = Cardinality(Due(chatLog, clientId, t))
    /\ \A k \in DOMAIN messages : messages[k] = chatLog[KthDue(chatLog, clientId, t, k)]

\* the watermarks a caller may supply
Watermarks == 0..MaxClock

Given(t) == [given |-> TRUE, value |-> t]

\* the elements of a sequence
Range(seq) == {seq[i] : i \in DOMAIN seq}

----------------------------------------------------------------------------
(* C2 *)

\* C2: in every reachable state, for every client and every watermark, the
\* poll handler returns exactly the messages of the persisted log with that
\* clientId and a timestamp strictly above the watermark, each once and in
\* log order; the response of the last poll served has no message of
\* another client and none at or below its watermark.
C2_PollReturnsExactlyTheDue ==
    /\ \A c \in Clients, t \in Watermarks :
          ExactlyTheDue(PollResponse(chatLogFile, c, Given(t)).newMessages,
                        chatLogFile, c, t)
    /\ polled # NoPoll =>
          \A m \in Range(polled.data.newMessages) :
              /\ m.clientId = polled.clientId
              /\ m.timestamp > AfterTimestamp(polled.after)

\* a poll has returned some but not all messages of the log: the log holds a
\* message of another client and one of this client at or below the watermark
C2_Witness ==
    /\ polled # NoPoll
    /\ polled.after.given
    /\ polled.data = PollResponse(chatLogFile, polled.clientId, polled.after)
    /\ Len(polled.data.newMessages) > 0
    /\ \E i \in DOMAIN chatLogFile : chatLogFile[i].clientId # polled.clientId
    /\ \E i \in DOMAIN chatLogFile :
          /\ chatLogFile[i].clientId = polled.clientId
          /\ chatLogFile[i].timestamp <= polled.after.value

----------------------------------------------------------------------------
(* C5 *)

\* C5: in every reachable state, for every client and every watermark, the
\* lastTimestamp of the poll response is the largest timestamp among the
\* returned messages when there are any and the supplied watermark when
\* there are none, and it is never below the watermark.
C5_LastTimestampIsMaxOrAfter ==
    \A c \in Clients, t \in Watermarks :
        LET data == PollResponse(chatLogFile, c, Given(t))
            stamps == {m.timestamp : m \in Range(data.newMessages)}
        IN  /\ stamps # {} =>
                /\ data.lastTimestamp \in stamps
                /\ \A x \in stamps : x <= data.lastTimestamp
            /\ stamps = {} => data.lastTimestamp = t
            /\ data.lastTimestamp >= t

\* a poll has returned messages of different timestamps, the largest last
C5_Witness ==
    /\ polled # NoPoll
    /\ polled.after.given
    /\ \E i, j \in DOMAIN polled.data.newMessages :
          polled.data.newMessages[i].timestamp < polled.data.newMessages[j].timestamp
    /\ polled.data.lastTimestamp > polled.after.value
    /\ \A m \in Range(polled.data.newMessages) : m.timestamp <= polled.data.lastTimestamp

----------------------------------------------------------------------------
(* C6 *)

\* C6 as stated: two polls with the same watermark and no message appended
\* in between (both read the log of this state) return an empty newMessages
\* list both times, with the same lastTimestamp.
C6_RepeatedPollIsEmpty ==
    \A c \in Clients, t \in Watermarks :
        LET first == PollResponse(chatLogFile, c, Given(t))
            second == PollResponse(chatLogFile, c, Given(t))
        IN  /\ first.newMessages = <<>>
            /\ second.newMessages = <<>>
            /\ first.lastTimestamp = second.lastTimestamp

\* C6 as amended: a poll whose watermark is the lastTimestamp an earlier poll
\* of the same client returned, with no message appended in between, returns
\* an empty newMessages list and that same lastTimestamp.
C6_PollFromLastTimestampIsEmpty ==
    \A c \in Clients, t \in Watermarks :
        LET first == PollResponse(chatLogFile, c, Given(t))
            second == PollResponse(chatLogFile, c, Given(first.lastTimestamp))
        IN  /\ second.newMessages = <<>>
            /\ second.lastTimestamp = first.lastTimestamp

\* a poll returned messages, and the poll from its lastTimestamp over the
\* same log returns none
C6_Witness ==
    /\ polled # NoPoll
    /\ polled.after.given
    /\ polled.data = PollResponse(chatLogFile, polled.clientId, polled.after)
    /\ Len(polled.data.newMessages) > 0
    /\ PollResponse(chatLogFile, polled.clientId,
                    Given(polled.data.lastTimestamp)).newMessages = <<>>

----------------------------------------------------------------------------
(* C8 *)

\* the replies (messages of a role other than user) a log holds for request n
Replies(chatLog, n) ==
    {i \in DOMAIN chatLog : chatLog[i].request = n /\ chatLog[i].role # "user"}

\* some pattern matched and the largest weighted confidence reaches the threshold
PatternAnswers(message, kb) ==
    /\ kb # <<>>
    /\ FracGT(MaxWeighted(message, kb), FracZero)
    /\ FracGE(MaxWeighted(message, kb), Frac(ConfidenceThreshold, 100))

\* reply is the one reply due to message under the pattern set kb
IsDueReply(reply, message, kb) ==
    IF PatternAnswers(message, kb)
    THEN /\ reply.role = "chatbot"
         /\ reply.content = kb[FirstAttaining(message, kb)].response
    ELSE /\ reply.role = "ai"
         /\ reply.content \in {AiCompletionText, AiFallbackText}

\* a send request that has appended its reply to its copy of the log
Replied(r) ==
    /\ req[r].kind = "send"
    /\ req[r].pc \in {"writeChatLog", "readAnalytics", "writeAnalytics", "notify"}

\* C8: every send request that has reached its reply has appended, after the
\* user message, exactly one reply: role chatbot with the response of the
\* first pattern of largest weighted confidence when some keyword matched and
\* that confidence is at least the threshold, role ai with the completion
\* service's text (or its fallback) otherwise; and once no request is in
\* flight the persisted log holds exactly one reply for every user message.
C8_ExactlyOneDueReply ==
    /\ \A r \in Slots : Replied(r) =>
          /\ Cardinality(Replies(req[r].chatLog, req[r].n)) = 1
          /\ \A i \in Replies(req[r].chatLog, req[r].n) :
                /\ IsDueReply(req[r].chatLog[i], req[r].message, req[r].kbAtAnalysis)
                /\ req[r].chatLog[i].clientId = req[r].clientId
                /\ i = Len(req[r].chatLog)
                /\ req[r].chatLog[i - 1].role = "user"
                /\ req[r].chatLog[i - 1].request = req[r].n
                /\ req[r].chatLog[i - 1].content = req[r].message
    /\ NoneInFlight =>
          \A i \in DOMAIN chatLogFile : chatLogFile[i].role = "user" =>
              Cardinality(Replies(chatLogFile, chatLogFile[i].request)) = 1

\* the log holds a pattern reply to one user message and a completion reply
\* to another, and a request that matched a pattern below the threshold has
\* just been answered by the completion service
C8_Witness ==
    /\ \E i, j \in DOMAIN chatLogFile :
          /\ chatLogFile[i].role = "chatbot"
          /\ chatLogFile[j].role = "ai"
    /\ \E r \in Slots :
          /\ Replied(r)
          /\ req[r].botAnalysis.match # Null
          /\ req[r].botAnalysis.shouldEscalate
          /\ req[r].role = "ai"

----------------------------------------------------------------------------
(* C1, C3, C4, C7, C9: requests that interleave *)

\* the accepted request n has a message in chatLog
Logged(chatLog, n) == \E i \in DOMAIN chatLog : chatLog[i].request = n

\* C1: once no request is in flight, the persisted log holds the messages of
\* every two requests that were accepted for the same conversation: neither
\* request's append is lost, however the two interleaved.
C1_NoAppendLost ==
    NoneInFlight =>
        \A n, m \in DOMAIN accepted :
            (n # m /\ accepted[n] = accepted[m]) =>
                Logged(chatLogFile, n) /\ Logged(chatLogFile, m)

\* C3: the widget, polling from watermark 0 with the lastTimestamp of each
\* response as its next watermark, misses no message of its conversation (a
\* logged message it has not received is still above its watermark, so a
\* later poll returns it) and gets none twice (its next poll returns nothing
\* it has received already).
C3_WatermarkMissesNothing ==
    /\ \A i \in DOMAIN chatLogFile :
          chatLogFile[i].clientId = WidgetClient =>
              \/ chatLogFile[i] \in received
              \/ chatLogFile[i].timestamp > lastMessageTimestamp
    /\ \A m \in Range(PollResponse(chatLogFile, WidgetClient,
                                   Given(lastMessageTimestamp)).newMessages) :
          m \notin received

\* C4: once no request is in flight, a poll of a conversation from below the
\* timestamps of its messages returns a message of every request accepted
\* for it; a poll returns no message twice and none at or below its watermark.
C4_PollReturnsEveryAppended ==
    /\ NoneInFlight =>
          \A n \in DOMAIN accepted :
              \E m \in Range(PollResponse(chatLogFile, accepted[n], Given(0)).newMessages) :
                  m.request = n
    /\ \A c \in Clients, t \in Watermarks :
          LET newMessages == PollResponse(chatLogFile, c, Given(t)).newMessages
          IN  \A i, j \in DOMAIN newMessages :
                  /\ newMessages[i].timestamp > t
                  /\ i # j => newMessages[i] # newMessages[j]

\* s occurs in t as a subsequence: every element of s, in the order of s
RECURSIVE IsSubseq(_, _)
IsSubseq(s, t) ==
    IF s = <<>> THEN TRUE
    ELSE IF t = <<>> THEN FALSE
    ELSE IF Head(s) = Head(t) THEN IsSubseq(Tail(s), Tail(t))
    ELSE IsSubseq(s, Tail(t))

\* C7: every step leaves the messages of the persisted log in it, unchanged
\* and in their order: the log of the next state contains the log of this
\* state as a subsequence.
C7_LoggedMessagesStay == [][IsSubseq(chatLogFile, chatLogFile')]_vars

\* C9: a send that was accepted while its conversation had an active
\* takeover record writes no chatbot-role and no ai-role message of its own
\* to the persisted log.
C9_NoAutomatedReplyUnderTakeover ==
    \A r \in Slots :
        (/\ req[r].kind = "send"
         /\ req[r].takenOver
         /\ req[r].pc \in {"readAnalytics", "writeAnalytics", "notify"}) =>
            \A i \in DOMAIN chatLogFile :
                chatLogFile[i].request = req[r].n =>
                    chatLogFile[i].role \notin {"chatbot", "ai"}

----------------------------------------------------------------------------
(* C11 *)

\* the largest weighted confidence, 0 for the empty pattern set
Winning(message, kb) == IF kb = <<>> THEN [num |-> 0, den |-> 1] ELSE MaxWeighted(message, kb)

\* C11: analyzeMessage returns shouldEscalate true exactly when the largest
\* weighted confidence over the patterns is strictly below 0.7; at exactly
\* 0.7 it returns false.
C11_EscalatesExactlyBelowThreshold ==
    analyzed # NoCall =>
        LET winning == Winning(analyzed.message, analyzed.kb)
        IN  analyzed.result.shouldEscalate <=>
                winning.num * 100 < ConfidenceThreshold * winning.den

\* a call whose winning confidence is exactly the threshold did not escalate
C11_Witness ==
    /\ analyzed # NoCall
    /\ analyzed.kb # <<>>
    /\ Winning(analyzed.message, analyzed.kb) = [num |-> 7, den |-> 10]
    /\ analyzed.result.confidence = [num |-> 7, den |-> 10]
    /\ ~analyzed.result.shouldEscalate

----------------------------------------------------------------------------
(* C12 *)

\* C12: a send whose message the matcher analysed on the empty pattern set
\* (the set before loadKnowledgeBase has completed) got no match, confidence
\* 0 and shouldEscalate true, whatever the message, and its reply, once
\* appended, is the escalation tier's.
C12_EmptySetAlwaysEscalates ==
    \A r \in Slots :
        (req[r].kind = "send" /\ req[r].kbAtAnalysis = <<>>) =>
            /\ req[r].botAnalysis.match = Null
            /\ req[r].botAnalysis.confidence = [num |-> 0, den |-> 1]
            /\ req[r].botAnalysis.shouldEscalate
            /\ Replied(r) => req[r].role = "ai"

\* a message that the default patterns answer was sent before the patterns
\* were loaded and has been answered by the escalation tier
C12_Witness ==
    \E r \in Slots :
        /\ Replied(r)
        /\ req[r].kbAtAnalysis = <<>>
        /\ PatternAnswers(req[r].message, DefaultKnowledgeBase)
        /\ req[r].role = "ai"

----------------------------------------------------------------------------
(* C13 *)

----------------------------------------------------------------------------
(* C14, C15 *)

\* a call of updatePattern has changed the set in memory
Updating == req[1].kind = "recordUsage"

\* C14: after a call of updatePattern, with any feedback, on a pattern of
\* the set, the confidence of that pattern lies in [0.1, 1.0].
C14_ConfidenceStaysClamped ==
    Updating =>
        /\ knowledgeBase[req[1].index].confidence >= 10
        /\ knowledgeBase[req[1].index].confidence <= 100

\* C15: a call of updatePattern with positive or negative feedback has
\* raised the usage of the pattern by one and moved its confidence by +0.05
\* (at most 1.0) or -0.05 (at least 0.1); a call with neutral feedback has left
\* the pattern's usage and confidence, and the pattern set to be persisted,
\* as they were.
C15_RecordUsageEffect ==
    Updating =>
        LET before == req[1].kbBefore[req[1].index]
            after == knowledgeBase[req[1].index]
        IN  /\ req[1].feedback = "positive" =>
                /\ after.usage = before.usage + 1
                /\ after.confidence = Min(100, before.confidence + 5)
            /\ req[1].feedback = "negative" =>
                /\ after.usage = before.usage + 1
                /\ after.confidence = Max(10, before.confidence - 5)
            /\ req[1].feedback = "neutral" =>
                /\ after.usage = before.usage
                /\ after.confidence = before.confidence
                /\ req[1].kbData = req[1].kbBefore

----------------------------------------------------------------------------
(* C16, C17 *)

\* the call of request r to the completion service has failed and
\* processMessage has returned
AiFailed(r) == Replied(r) /\ req[r].role = "ai" /\ req[r].aiFailed

----------------------------------------------------------------------------
(* C18 *)

IsReply(body) == "reply" \in DOMAIN body
IsTakenOver(body) == "message" \in DOMAIN body /\ body.message = "Conversation taken over"
IsSent(body) == "message" \in DOMAIN body /\ body.message = "Message sent"

\* the number of sends and responds answered with success
Successes ==
    Cardinality({resp \in responses :
        resp.status = 200 /\ (IsReply(resp.body) \/ IsSent(resp.body))})

\* the total of today's counters in the analytics document
CountedToday ==
    IF Today(now) \in DOMAIN analyticsFile.days
    THEN analyticsFile.days[Today(now)].total ELSE 0

\* C18: every request answered with success has what it reported stored:
\* its message is in the persisted log, a takeover's record is in the
\* analytics document, and the day's counters count every send and respond
\* answered with success.
C18_NoSuccessWithoutStore ==
    /\ \A resp \in responses :
          resp.status = 200 =>
              /\ Logged(chatLogFile, resp.request)
              /\ IsTakenOver(resp.body) =>
                     ActiveTakeover(analyticsFile, accepted[resp.request])
    /\ CountedToday >= Successes

----------------------------------------------------------------------------
(* C19 *)

\* request n is a send that the handler has started
SendStarted(n) == \E r \in Slots : req[r].kind = "send" /\ req[r].n = n

\* request n has been answered
Answered(n) == \E resp \in responses : resp.request = n

\* C19: every send request that is started is eventually answered, whether
\* or not the completion call and the notification are ever settled.
C19_EverySendIsAnswered ==
    \A n \in 1..MaxRequests : SendStarted(n) ~> Answered(n)

----------------------------------------------------------------------------
(* POST /api/admin/verify-code and the session check of the admin routes *)

\* the tokens uuidv4 hands out
IssuableTokens == {"t1", "t2"}

\* what a request may carry after "Bearer "
BearerTokens == IssuableTokens \cup {"constructor", "t3"}

\* The server has started and nobody has logged in.
AuthInit ==
    /\ now = 1
    /\ chatLogFile = <<>>
    /\ analyticsFile = [days |-> <<>>, adminTakeovers |-> <<>>, feedback |-> <<>>]
    /\ knowledgeBaseFile = <<>>
    /\ adminSessionsFile = <<>>
    /\ knowledgeBase = <<>>
    /\ kbLoaded = FALSE
    /\ req = [r \in Slots |-> Idle]
    /\ accepted = <<>>
    /\ polled = NoPoll
    /\ lastMessageTimestamp = 0
    /\ received = {}
    /\ analyzed = NoCall
    /\ responses = {}
    /\ authCodes = <<>>
    /\ codesIssued = 0

\* 5 * 60 * 1000
CodeTTL == 300000

\* the identities a request may name: the configured admin and someone else
Identities == {AdminTelegramId, "visitor"}

\* Math.floor(100000 + Math.random() * 900000).toString()
Codes == {"100000", "100001"}

\* this.authCodes.set(telegramId, { code, expires: Date.now() + 5 * 60 * 1000 });
\* issued is the time of the call
SetAuthCode(codes, telegramId, code, t) ==
    [k \in DOMAIN codes \cup {telegramId} |->
        IF k = telegramId THEN [code |-> code, expires |-> t + CodeTTL, issued |-> t]
        ELSE codes[k]]

\* this.authCodes.delete(telegramId)
DeleteAuthCode(codes, telegramId) ==
    IF DOMAIN codes \subseteq {telegramId} THEN <<>>
    ELSE [k \in DOMAIN codes \ {telegramId} |-> codes[k]]

\* verifyAuthCode that leaves the code it accepts in the map
VerifyAuthCodeKeeping(codes, telegramId, code, t) ==
    IF telegramId \notin DOMAIN codes
    THEN [isValid |-> FALSE, authCodes |-> codes, returned |-> "noAuthData"]
    ELSE IF t > codes[telegramId].expires
    THEN [isValid |-> FALSE, authCodes |-> DeleteAuthCode(codes, telegramId),
          returned |-> "expired"]
    ELSE IF codes[telegramId].code = code
    THEN [isValid |-> TRUE, authCodes |-> codes, returned |-> "match"]
    ELSE [isValid |-> FALSE, authCodes |-> codes, returned |-> "mismatch"]

\* verifyAuthCode that never looks at the expiry
VerifyAuthCodeUnexpiring(codes, telegramId, code, t) ==
    IF telegramId \notin DOMAIN codes
    THEN [isValid |-> FALSE, authCodes |-> codes, returned |-> "noAuthData"]
    ELSE IF codes[telegramId].code = code
    THEN [isValid |-> TRUE, authCodes |-> DeleteAuthCode(codes, telegramId),
          returned |-> "match"]
    ELSE [isValid |-> FALSE, authCodes |-> codes, returned |-> "mismatch"]

\* verifyAuthCode(telegramId, code) at time t: what it returns, the map it
\* leaves, and which of its return statements was taken
VerifyAuthCode(codes, telegramId, code, t) ==
    IF telegramId \notin DOMAIN codes
    THEN [isValid |-> FALSE, authCodes |-> codes, returned |-> "noAuthData"]
    ELSE IF t > codes[telegramId].expires
    THEN [isValid |-> FALSE, authCodes |-> DeleteAuthCode(codes, telegramId),
          returned |-> "expired"]
    ELSE IF codes[telegramId].code = code
    THEN [isValid |-> TRUE, authCodes |-> DeleteAuthCode(codes, telegramId),
          returned |-> "match"]
    ELSE [isValid |-> FALSE, authCodes |-> codes, returned |-> "mismatch"]

\* the 403 of request-code and verify-code
Forbidden == Response(0, 403, [error |-> "Unauthorized"])

\* the code pending for the identity, "none" if there is none
PendingCode(codes, telegramId) ==
    IF telegramId \in DOMAIN codes THEN codes[telegramId].code ELSE "none"

\* the 400 of verify-code, with the return statement of verifyAuthCode that
\* led to it, the code that was submitted and the code that was pending
VerifyCodeFailed(returned, code, pending) ==
    [request |-> 0, status |-> 400, body |-> [error |-> "Invalid or expired code"],
     returned |-> returned, submitted |-> code, pending |-> pending]

\* request-code: any identity but the admin's is answered with 403; for the
\* admin a code is drawn and stored, and its push over Telegram awaited
RequestCode(r, telegramId, code) ==
    /\ FreeSlot(r)
    /\ IF telegramId # AdminTelegramId
       THEN /\ responses' = responses \cup {Forbidden}
            /\ UNCHANGED <<req, auth>>
       ELSE /\ codesIssued < MaxCodes
            /\ authCodes' = SetAuthCode(authCodes, telegramId, code, now)
            /\ codesIssued' = codesIssued + 1
            /\ req' = [req EXCEPT ![r] =
                  [kind |-> "requestCode", pc |-> "sendCode", n |-> 0,
                   telegramId |-> telegramId, code |-> code]]
            /\ UNCHANGED responses
    /\ UNCHANGED <<now, files, brain, accepted, pollers>>

\* the push has succeeded or failed, and the request is answered either way
RequestCodeSent(r, sent) ==
    /\ req[r].kind = "requestCode" /\ req[r].pc = "sendCode"
    /\ responses' = responses \cup {Response(0, 200, [success |-> sent])}
    /\ req' = [req EXCEPT ![r] = Idle]
    /\ UNCHANGED <<now, files, brain, accepted, pollers, auth>>

\* no session is stored, and none is about to be, under the token
FreshToken(token) ==
    /\ token \notin DOMAIN adminSessionsFile
    /\ \A q \in Slots : req[q].kind = "verifyCode" => req[q].token # token

\* verify-code: any identity but the admin's is answered with 403; a code
\* verifyAuthCode does not accept is answered with 400; for one it accepts a
\* fresh token is drawn, the session document read and the session set in
\* memory.  The request appends nothing to the log and carries the number 0.
VerifyCode(r, telegramId, code, token) ==
    /\ FreeSlot(r)
    /\ IF telegramId # AdminTelegramId
       THEN /\ responses' = responses \cup {Forbidden}
            /\ UNCHANGED <<req, auth>>
       ELSE LET verified == VerifyAuthCode(authCodes, telegramId, code, now)
            IN  /\ authCodes' = verified.authCodes
                /\ UNCHANGED codesIssued
                /\ IF verified.isValid
                   THEN /\ FreshToken(token)
                        /\ req' = [req EXCEPT ![r] =
                              [kind |-> "verifyCode", pc |-> "writeSessions", n |-> 0,
                               token |-> token,
                               sessions |->
                                  [k \in DOMAIN adminSessionsFile \cup {token} |->
                                      IF k = token THEN NewSession(telegramId, now)
                                      ELSE adminSessionsFile[k]]]]
                        /\ UNCHANGED responses
                   ELSE /\ responses' = responses \cup
                              {VerifyCodeFailed(verified.returned, code,
                                                PendingCode(authCodes, telegramId))}
                        /\ UNCHANGED req
    /\ UNCHANGED <<now, files, brain, accepted, pollers>>

\* the session write lands and the token is handed to the admin
VerifyCodeWritten(r, ok) ==
    /\ req[r].kind = "verifyCode" /\ req[r].pc = "writeSessions"
    /\ adminSessionsFile' = Written(adminSessionsFile, req[r].sessions, ok)
    /\ responses' = responses \cup
          {Response(0, 200, [success |-> TRUE, token |-> req[r].token])}
    /\ req' = [req EXCEPT ![r] = Idle]
    /\ UNCHANGED <<now, chatLogFile, analyticsFile, knowledgeBaseFile, brain,
                   accepted, pollers, auth>>

\* twenty-four hours pass
DayPasses ==
    /\ now < SessionTTL
    /\ now' = now + SessionTTL
    /\ UNCHANGED <<files, brain, req, accepted, pollers, responses, auth>>

\* The admin logs in and requests reach the admin routes with any bearer
\* token, one request at a time, while time passes.
AuthNext ==
    \/ Tick
    \/ DayPasses
    \/ NoneInFlight /\ RequestCode(1, AdminTelegramId, "100000")
    \/ RequestCodeSent(1, TRUE)
    \/ NoneInFlight /\ \E code \in Codes, token \in IssuableTokens :
          VerifyCode(1, AdminTelegramId, code, token)
    \/ VerifyCodeWritten(1, TRUE)
    \/ NoneInFlight /\ \E c \in Clients, token \in BearerTokens : Takeover(1, c, token)
    \/ TakeoverSteps(1)
    \/ NoneInFlight /\ \E c \in Clients, m \in AdminTexts, token \in BearerTokens :
          Respond(1, c, m, token)
    \/ RespondSteps(1)

SpecAuth == AuthInit /\ [][AuthNext]_vars

----------------------------------------------------------------------------
(* C20 *)

\* verify-code has answered with the token
Issued(token) ==
    \E resp \in responses :
        /\ resp.status = 200
        /\ "token" \in DOMAIN resp.body
        /\ resp.body.token = token

\* the token was issued and no more than 24 hours have passed since
IssuedAndFresh(token) ==
    /\ Issued(token)
    /\ token \in DOMAIN adminSessionsFile
    /\ now <= adminSessionsFile[token].created + SessionTTL

\* an admin route lets a request with the token through
Admitted(token) ==
    \/ \E c \in Clients : Takeover(1, c, token)
    \/ \E c \in Clients, m \in AdminTexts : Respond(1, c, m, token)

\* C20: an admin route lets a request through only if its token was issued
\* by a successful verify-code no more than 24 hours before; no step changes
\* the expires of a stored session.
C20_OnlyIssuedFreshTokensAdmitted ==
    [][/\ \A token \in BearerTokens : Admitted(token) => IssuedAndFresh(token)
       /\ \A token \in DOMAIN adminSessionsFile :
             /\ token \in DOMAIN adminSessionsFile'
             /\ adminSessionsFile'[token].expires = adminSessionsFile[token].expires]_vars

----------------------------------------------------------------------------
(* The admin routes that read: dashboard, conversations, admin poll; and the
   401 of the routes that write *)

\* 30 * 60 * 1000
ActiveWindow == 1800000

RECURSIVE ClientsOf(_)
\* the clientIds of a list of messages, in the order of their first message
\* (the keys of the object the handlers group into)
ClientsOf(messages) ==
    IF messages = <<>> THEN <<>>
    ELSE LET rest == ClientsOf(SelectSeq(Tail(messages),
                         LAMBDA msg : msg.clientId # messages[1].clientId))
         IN  <<messages[1].clientId>> \o rest

\* the messages of one conversation
MessagesOf(messages, clientId) ==
    SelectSeq(messages, LAMBDA msg : msg.clientId = clientId)

\* the entry of activeChats for a conversation
ActiveChat(messages, clientId) ==
    LET own == MessagesOf(messages, clientId)
    IN  [clientId |-> clientId, lastMessage |-> own[Len(own)],
         messageCount |-> Len(own), lastActivity |-> MaxTimestamp(own)]

\* analytics[today] || { total: 0, chatbot: 0, ai: 0, admin: 0 }
TodayStats(analytics, t) ==
    IF Today(t) \in DOMAIN analytics.days THEN analytics.days[Today(t)] ELSE EmptyBucket

\* the body of the dashboard's answer
DashboardBody(chatLog, analytics, t) ==
    LET active == SelectSeq(chatLog, LAMBDA msg : msg.timestamp > t - ActiveWindow)
        clients == ClientsOf(active)
    IN  [stats |-> [today |-> TodayStats(analytics, t),
                    activeConversations |-> Len(clients),
                    totalConversations |-> Len(chatLog)],
         activeChats |-> [i \in DOMAIN clients |-> ActiveChat(active, clients[i])]]

\* the entry of the conversation list for a conversation
Conversation(chatLog, clientId) ==
    LET own == MessagesOf(chatLog, clientId)
    IN  [clientId |-> clientId, messages |-> own, startTime |-> own[1].timestamp,
         lastActivity |-> MaxTimestamp(own), messageCount |-> Len(own)]

RECURSIVE InsertByActivity(_, _)
\* conv put into a list sorted by falling lastActivity, after its equals
InsertByActivity(sorted, conv) ==
    IF sorted = <<>> THEN <<conv>>
    ELSE IF sorted[1].lastActivity >= conv.lastActivity
         THEN <<sorted[1]>> \o InsertByActivity(Tail(sorted), conv)
         ELSE <<conv>> \o sorted

RECURSIVE SortByActivity(_)
\* conversationList.sort((a, b) => b.lastActivity - a.lastActivity)
SortByActivity(list) ==
    IF list = <<>> THEN <<>>
    ELSE InsertByActivity(SortByActivity(SubSeq(list, 1, Len(list) - 1)), list[Len(list)])

\* limit = 20 of the query string's defaults
PageLimit == 20

\* the body of the conversation list's answer for page 1, limit 20, no filter
ConversationsBody(chatLog) ==
    LET clients == ClientsOf(chatLog)
        list == SortByActivity([i \in DOMAIN clients |-> Conversation(chatLog, clients[i])])
    IN  [conversations |-> SubSeq(list, 1, Min(Len(list), PageLimit)),
         total |-> Len(list), page |-> 1, limit |-> PageLimit]

\* the body of the admin poll's answer
AdminPollBody(chatLog, after) ==
    LET afterTimestamp == AfterTimestamp(after)
        newMessages == SelectSeq(chatLog, LAMBDA msg : msg.timestamp > afterTimestamp)
    IN  [newMessages |-> newMessages,
         lastTimestamp |-> LastTimestamp(newMessages, afterTimestamp)]

\* res.status(401).json({ error: 'Unauthorized' })
Unauthorized == Response(0, 401, [error |-> "Unauthorized"])

\* what a request may carry as its token: the admin's, one never issued, the
\* name of an inherited property, or none at all
RequestTokens == {AdminToken, "t3", "constructor", Undefined}

\* the answer to a reading request of an admin route, with the token the
\* request carried
Read(route, token, status, body) ==
    [route |-> route, token |-> token, status |-> status, body |-> body]

\* dashboard: the log is read; the request's token is not looked at
Dashboard(r, token) ==
    /\ FreeSlot(r)
    /\ req' = [req EXCEPT ![r] =
          [kind |-> "dashboard", pc |-> "readAnalytics", n |-> 0,
           token |-> token, chatLog |-> chatLogFile]]
    /\ UNCHANGED <<now, files, brain, accepted, pollers, responses, auth>>

\* the analytics document is read and the dashboard answered
DashboardReadAnalytics(r) ==
    /\ req[r].kind = "dashboard" /\ req[r].pc = "readAnalytics"
    /\ polled' = Read("dashboard", req[r].token, 200,
                      DashboardBody(req[r].chatLog, analyticsFile, now))
    /\ req' = [req EXCEPT ![r] = Idle]
    /\ UNCHANGED <<now, files, brain, accepted, lastMessageTimestamp, received,
                   analyzed, responses, auth>>

\* conversations: the session is checked, the log read and the list answered
Conversations(token) ==
    /\ polled' = IF SessionRejected(adminSessionsFile, token, now)
                 THEN Read("conversations", token, 401, [error |-> "Unauthorized"])
                 ELSE Read("conversations", token, 200, ConversationsBody(chatLogFile))
    /\ UNCHANGED <<now, files, brain, req, accepted, lastMessageTimestamp, received,
                   analyzed, responses, auth>>

\* the routes GET /api/chat/poll/:clientId and GET /api/chat/poll/admin both
\* match the path of the admin poll; the one registered first answers
PollRoutes == {"clientId", "admin"}

\* a request to /api/chat/poll/admin: under the route of the widget's poll it
\* is the poll of the conversation "admin"; under its own route the session
\* is checked and the messages of all conversations answered
PollAdmin(after, token, route) ==
    /\ polled' = [after |-> after] @@
          (IF route = "clientId"
           THEN Read("poll", token, 200, PollResponse(chatLogFile, "admin", after))
           ELSE IF SessionRejected(adminSessionsFile, token, now)
           THEN Read("poll", token, 401, [error |-> "Unauthorized"])
           ELSE Read("poll", token, 200, AdminPollBody(chatLogFile, after)))
    /\ UNCHANGED <<now, files, brain, req, accepted, lastMessageTimestamp, received,
                   analyzed, responses, auth>>

\* takeover with a session the check rejects
TakeoverRejected(conversationId, token) ==
    /\ SessionRejected(adminSessionsFile, token, now)
    /\ responses' = responses \cup {Unauthorized}
    /\ UNCHANGED <<now, files, brain, req, accepted, pollers, auth>>

\* respond with a session the check rejects
RespondRejected(conversationId, message, token) ==
    /\ SessionRejected(adminSessionsFile, token, now)
    /\ responses' = responses \cup {Unauthorized}
    /\ UNCHANGED <<now, files, brain, req, accepted, pollers, auth>>

\* The admin has logged in once; requests reach the admin routes with any
\* token or none, one request at a time, while time passes.
AdminNext ==
    \/ Tick
    \/ DayPasses
    \/ NoneInFlight /\ \E c \in Clients, token \in RequestTokens : Takeover(1, c, token)
    \/ NoneInFlight /\ \E c \in Clients, token \in RequestTokens : TakeoverRejected(c, token)
    \/ TakeoverSteps(1)
    \/ NoneInFlight /\ \E c \in Clients, m \in AdminTexts, token \in RequestTokens :
          Respond(1, c, m, token)
    \/ NoneInFlight /\ \E c \in Clients, m \in AdminTexts, token \in RequestTokens :
          RespondRejected(c, m, token)
    \/ RespondSteps(1)
    \/ NoneInFlight /\ \E token \in RequestTokens : Dashboard(1, token)
    \/ DashboardReadAnalytics(1)
    \/ NoneInFlight /\ \E token \in RequestTokens : Conversations(token)
    \/ NoneInFlight /\ \E after \in Afters, token \in RequestTokens, route \in PollRoutes :
          PollAdmin(after, token, route)

SpecAdmin == Init /\ [][AdminNext]_vars

----------------------------------------------------------------------------
(* C21 *)

\* a session is stored under the token and has not expired
ValidSession(token) ==
    /\ token \in DOMAIN adminSessionsFile
    /\ now <= adminSessionsFile[token].expires

\* a step of an admin route that writes, for a request with the token
AdminWrite(token) ==
    \/ \E c \in Clients : Takeover(1, c, token) \/ TakeoverRejected(c, token)
    \/ \E c \in Clients, m \in AdminTexts :
          Respond(1, c, m, token) \/ RespondRejected(c, m, token)

\* C21: a request to an admin route that carries no token, or a token with
\* no unexpired session, is answered with an authorization error and no
\* data (dashboard, conversations, admin poll), and changes no file and
\* starts no write (takeover, respond).
C21_AdminRoutesAreGated ==
    [][/\ polled' # polled /\ ~ValidSession(polled'.token) => polled'.status = 401
       /\ \A token \in RequestTokens :
             AdminWrite(token) /\ ~ValidSession(token) =>
                 /\ responses' \ responses \subseteq {Unauthorized}
                 /\ UNCHANGED <<files, req>>]_vars

----------------------------------------------------------------------------
(* C22 *)

\* the session stored under the token has expired, or none is stored under
\* it, or the request carries no token
MissingUnknownOrExpired(token) ==
    \/ token = Undefined
    \/ token \notin DOMAIN adminSessionsFile
    \/ now > adminSessionsFile[token].expires

\* C22: takeover and respond with a missing, unknown or expired token are
\* answered with Unauthorized and start no write, so that the message log,
\* the takeover records and the counters stay as they are.
C22_BadTokenLeavesStoreAlone ==
    [][\A token \in RequestTokens :
          AdminWrite(token) /\ MissingUnknownOrExpired(token) =>
              /\ Unauthorized \in responses'
              /\ UNCHANGED <<chatLogFile, analyticsFile, req>>]_vars

----------------------------------------------------------------------------
(* C23 *)

\* the logged messages of all conversations later than the timestamp
Newer(afterTimestamp) == {msg \in Range(chatLogFile) : msg.timestamp > afterTimestamp}

\* the body holds exactly the logged messages later than the timestamp, and
\* the latest of their timestamps, or the timestamp itself when there are none
ExactlyTheNewer(body, afterTimestamp) ==
    /\ Range(body.newMessages) = Newer(afterTimestamp)
    /\ Len(body.newMessages) = Cardinality(Newer(afterTimestamp))
    /\ \A msg \in Newer(afterTimestamp) : body.lastTimestamp >= msg.timestamp
    /\ IF Newer(afterTimestamp) = {} THEN body.lastTimestamp = afterTimestamp
       ELSE \E msg \in Newer(afterTimestamp) : body.lastTimestamp = msg.timestamp

\* C23: an admin poll with a valid session is answered with exactly the
\* messages of all conversations later than after and the latest of their
\* timestamps (after when there are none); one without a valid session is
\* answered with Unauthorized and no messages.
C23_AdminPollReturnsAllNewer ==
    [][\A after \in Afters, token \in RequestTokens, route \in PollRoutes :
          PollAdmin(after, token, route) =>
              IF ValidSession(token)
              THEN /\ polled'.status = 200
                   /\ ExactlyTheNewer(polled'.body, AfterTimestamp(after))
              ELSE /\ polled'.status = 401
                   /\ polled'.body = [error |-> "Unauthorized"]]_vars

----------------------------------------------------------------------------
(* The one-time codes *)

\* five minutes pass
CodeLifetimePasses ==
    /\ now < CodeTTL
    /\ now' = now + CodeTTL
    /\ UNCHANGED <<files, brain, req, accepted, pollers, responses, auth>>

\* Nobody has logged in; codes are requested and submitted for any identity,
\* the requests interleave at their suspension points, the push of a code
\* succeeds, and time passes.
CodesNext ==
    \/ Tick
    \/ CodeLifetimePasses
    \/ \E r \in Slots, telegramId \in Identities, code \in Codes :
          RequestCode(r, telegramId, code)
    \/ \E r \in Slots : RequestCodeSent(r, TRUE)
    \/ \E r \in Slots, telegramId \in Identities, code \in Codes, token \in IssuableTokens :
          VerifyCode(r, telegramId, code, token)
    \/ \E r \in Slots : VerifyCodeWritten(r, TRUE)

SpecCodes == AuthInit /\ [][CodesNext]_vars

----------------------------------------------------------------------------
(* C24 *)

\* the tokens verify-code has handed out or is about to
Granted ==
    {token \in IssuableTokens :
        \/ Issued(token)
        \/ \E r \in Slots : req[r].kind = "verifyCode" /\ req[r].token = token}

\* C24: no more sessions are granted than codes were issued: the code a
\* verify-code accepts is gone, and a second verify-code with the same code,
\* interleaved or later, fails until request-code issues a new one.
C24_OneSessionPerCode == Cardinality(Granted) <= codesIssued

\* one code was issued, a verify-code with it was granted a session, and a
\* second verify-code found no code pending
C24_Witness ==
    /\ codesIssued = 1
    /\ Cardinality(Granted) = 1
    /\ \E code \in Codes : VerifyCodeFailed("noAuthData", code, "none") \in responses

----------------------------------------------------------------------------
(* C25 *)

\* verify-code grants a session in this step
Grants ==
    \E r \in Slots : req[r].kind # "verifyCode" /\ req'[r].kind = "verifyCode"

\* C25: a verify-code that arrives more than five minutes after the pending
\* code was issued grants no session, whatever code it submits.
C25_LateCodeGrantsNothing ==
    [][\A telegramId \in DOMAIN authCodes :
          now > authCodes[telegramId].issued + 5 * 60 * 1000 => ~Grants]_vars

\* the right code was submitted after its expiry and refused
C25_Witness ==
    \E code \in Codes : VerifyCodeFailed("expired", code, code) \in responses

----------------------------------------------------------------------------
(* C26 *)

\* the answers of verify-code to a code it did not accept
Refusals == {resp \in responses : "returned" \in DOMAIN resp}

\* C26: verify-code tells its failures apart: two refusals that come from
\* different return statements of verifyAuthCode (no code pending, code
\* expired, code different) differ in status or body.
C26_FailuresAreDistinguishable ==
    \A first, second \in Refusals :
        first.returned # second.returned =>
            first.status # second.status \/ first.body # second.body

----------------------------------------------------------------------------
(* The login of src/unnamed/part_001: class AuthSystem and the routes
   /api/auth/request-code and /api/auth/verify-code.  Its session document
   is a list of sessions; its texts are written here without diacritics. *)

\* the message verifyAuthCode of AuthSystem returns with its result
AuthSystemMessage(returned) ==
    CASE returned = "noAuthData" -> "Kod bulunamadi"
      [] returned = "expired" -> "Kod suresi doldu"
      [] returned = "mismatch" -> "Gecersiz kod"
      [] returned = "match" -> "Giris basarili"

\* the session createSession builds
AuthSystemSession(token, telegramId, t) ==
    [token |-> token, telegramId |-> telegramId, created |-> t,
     expires |-> t + SessionTTL, lastActivity |-> t]

\* no session is listed, and none is about to be, under the token
AuthSystemFreshToken(token) ==
    /\ \A i \in DOMAIN adminSessionsFile : adminSessionsFile[i].token # token
    /\ \A q \in Slots : req[q].kind = "authVerifyCode" => req[q].token # token

\* request-code of AuthSystem: a code is drawn and stored for whatever
\* identity the request names, and its push over Telegram awaited
AuthSystemRequestCode(r, telegramId, code) ==
    /\ FreeSlot(r)
    /\ codesIssued < MaxCodes
    /\ authCodes' = SetAuthCode(authCodes, telegramId, code, now)
    /\ codesIssued' = codesIssued + 1
    /\ req' = [req EXCEPT ![r] =
          [kind |-> "authRequestCode", pc |-> "sendCode", n |-> 0,
           telegramId |-> telegramId, code |-> code]]
    /\ UNCHANGED <<now, files, brain, accepted, pollers, responses>>

\* the push has succeeded or failed
AuthSystemRequestCodeSent(r, sent) ==
    /\ req[r].kind = "authRequestCode" /\ req[r].pc = "sendCode"
    /\ responses' = responses \cup
          {IF sent THEN Response(0, 200, [success |-> TRUE, message |-> "Kod gonderildi"])
           ELSE Response(0, 500, [error |-> "Kod gonderilemedi"])}
    /\ req' = [req EXCEPT ![r] = Idle]
    /\ UNCHANGED <<now, files, brain, accepted, pollers, auth>>

\* verify-code of AuthSystem: a code verifyAuthCode does not accept is
\* answered with 400 and the message of the failure; for one it accepts
\* createSession draws a token, reads the session list and appends the
\* session in memory
AuthSystemVerifyCode(r, telegramId, code, token) ==
    /\ FreeSlot(r)
    /\ LET verified == VerifyAuthCode(authCodes, telegramId, code, now)
       IN  /\ authCodes' = verified.authCodes
           /\ UNCHANGED codesIssued
           /\ IF verified.isValid
              THEN /\ AuthSystemFreshToken(token)
                   /\ req' = [req EXCEPT ![r] =
                         [kind |-> "authVerifyCode", pc |-> "writeSessions", n |-> 0,
                          token |-> token, telegramId |-> telegramId,
                          message |-> AuthSystemMessage(verified.returned),
                          sessions |-> Append(adminSessionsFile,
                                         AuthSystemSession(token, telegramId, now))]]
                   /\ UNCHANGED responses
              ELSE /\ responses' = responses \cup
                         {Response(0, 400, [error |-> AuthSystemMessage(verified.returned)])}
                   /\ UNCHANGED req
    /\ UNCHANGED <<now, files, brain, accepted, pollers>>

\* the write of the session list lands and the token is handed out
AuthSystemSessionWritten(r, ok) ==
    /\ req[r].kind = "authVerifyCode" /\ req[r].pc = "writeSessions"
    /\ adminSessionsFile' = Written(adminSessionsFile, req[r].sessions, ok)
    /\ responses' = responses \cup
          {Response(0, 200, [success |-> TRUE, message |-> req[r].message,
                             token |-> req[r].token])}
    /\ req' = [req EXCEPT ![r] = Idle]
    /\ UNCHANGED <<now, chatLogFile, analyticsFile, knowledgeBaseFile, brain,
                   accepted, pollers, auth>>

\* Nobody has logged in; codes are requested and submitted for any identity,
\* the requests interleave at their suspension points, and time passes.
AuthSystemNext ==
    \/ Tick
    \/ CodeLifetimePasses
    \/ \E r \in Slots, telegramId \in Identities, code \in Codes :
          AuthSystemRequestCode(r, telegramId, code)
    \/ \E r \in Slots, sent \in BOOLEAN : AuthSystemRequestCodeSent(r, sent)
    \/ \E r \in Slots, telegramId \in Identities, code \in Codes, token \in IssuableTokens :
          AuthSystemVerifyCode(r, telegramId, code, token)
    \/ \E r \in Slots : AuthSystemSessionWritten(r, TRUE)

SpecAuthSystem == AuthInit /\ [][AuthSystemNext]_vars

----------------------------------------------------------------------------
(* C27 *)

\* C27: codes and sessions exist for the configured admin identity only: no
\* code is stored or being pushed, and no session is stored or being
\* created, for any other identity.
C27_OnlyTheAdminIdentity ==
    /\ DOMAIN authCodes \subseteq {AdminTelegramId}
    /\ \A k \in DOMAIN adminSessionsFile :
          adminSessionsFile[k].telegramId = AdminTelegramId
    /\ \A r \in Slots :
          /\ "telegramId" \in DOMAIN req[r] => req[r].telegramId = AdminTelegramId
          /\ "sessions" \in DOMAIN req[r] =>
                \A k \in DOMAIN req[r].sessions :
                    req[r].sessions[k].telegramId = AdminTelegramId

----------------------------------------------------------------------------
(* The admin at work: takeovers and responses, one request at a time *)

\* what the admin types
DeskTexts == { <<220>>, <<221>> }

DeskNext ==
    \/ Tick
    \/ NoneInFlight /\ \E c \in Clients : Takeover(1, c, AdminToken)
    \/ TakeoverSteps(1)
    \/ NoneInFlight /\ \E c \in Clients, m \in DeskTexts : Respond(1, c, m, AdminToken)
    \/ RespondSteps(1)

SpecDesk == Init /\ [][DeskNext]_vars

----------------------------------------------------------------------------
(* C28 *)

\* the takeover in slot r has stored its record
TakeoverStored(r) ==
    req[r].kind = "takeover" /\ req[r].pc \in {"readChatLog", "writeChatLog"}

\* C28: a takeover builds, for its conversation, the one record with the
\* time, the adminId of its session and status active, in place of whatever
\* record was there, and leaves the records of the other conversations; once
\* it has stored it, that is the record of the conversation; and every
\* stored record has status active.
C28_OneActiveRecordOfLatestTakeover ==
    /\ [](/\ \A c \in DOMAIN analyticsFile.adminTakeovers :
                analyticsFile.adminTakeovers[c].status = "active"
          /\ \A r \in Slots :
                TakeoverStored(r) =>
                    /\ req[r].clientId \in DOMAIN analyticsFile.adminTakeovers
                    /\ analyticsFile.adminTakeovers[req[r].clientId] =
                          req[r].analytics.adminTakeovers[req[r].clientId])
    /\ [][\A c \in Clients :
             Takeover(1, c, AdminToken) =>
                 req'[1].analytics.adminTakeovers =
                    [d \in DOMAIN analyticsFile.adminTakeovers \cup {c} |->
                        IF d = c
                        THEN [timestamp |-> now, status |-> "active",
                              adminId |-> adminSessionsFile[AdminToken].telegramId]
                        ELSE analyticsFile.adminTakeovers[d]]]_vars

\* a conversation taken over at time 1 has been taken over again at time 2
\* and the second record stored in place of the first
C28_Witness ==
    \E r \in Slots :
        /\ TakeoverStored(r)
        /\ analyticsFile.adminTakeovers[req[r].clientId].timestamp = 2
        /\ \E n \in 1..Len(chatLogFile) :
              /\ chatLogFile[n].clientId = req[r].clientId
              /\ chatLogFile[n].timestamp = 1
              /\ chatLogFile[n].content = TakeoverGreeting

----------------------------------------------------------------------------
(* C29 *)

\* the responds answered with success
Sent == {resp \in responses : resp.status = 200 /\ IsSent(resp.body)}

\* the places of the log that hold a message of request n
MessagesOfRequest(n) == {i \in DOMAIN chatLogFile : chatLogFile[i].request = n}

\* C29: a respond with a valid session puts one message at the end of the
\* log, with the named conversation, the given text, role admin and the
\* adminId of the session; once it is answered the log holds exactly that one
\* message of it, and today's admin counter and total have been raised by one
\* for every respond answered, whether the conversation has a takeover record
\* or not.
C29_RespondAppendsOneAdminMessage ==
    /\ [](/\ \A resp \in Sent :
                /\ Cardinality(MessagesOfRequest(resp.request)) = 1
                /\ \A i \in MessagesOfRequest(resp.request) :
                      /\ chatLogFile[i].role = "admin"
                      /\ chatLogFile[i].clientId = accepted[resp.request]
                      /\ chatLogFile[i].adminId = adminSessionsFile[AdminToken].telegramId
                      /\ chatLogFile[i].timestamp = resp.body.timestamp
          /\ TodayStats(analyticsFile, now).admin = Cardinality(Sent)
          /\ TodayStats(analyticsFile, now).total = Cardinality(Sent))
    /\ [][\A c \in Clients, m \in DeskTexts :
             Respond(1, c, m, AdminToken) =>
                 /\ Len(req'[1].chatLog) = Len(chatLogFile) + 1
                 /\ SubSeq(req'[1].chatLog, 1, Len(chatLogFile)) = chatLogFile
                 /\ req'[1].chatLog[Len(chatLogFile) + 1].clientId = c
                 /\ req'[1].chatLog[Len(chatLogFile) + 1].content = m
                 /\ req'[1].chatLog[Len(chatLogFile) + 1].role = "admin"]_vars

\* a respond to a conversation that was never taken over has been answered
\* and its message is the last of the log
C29_Witness ==
    \E resp \in Sent :
        /\ ~ActiveTakeover(analyticsFile, accepted[resp.request])
        /\ chatLogFile # <<>>
        /\ chatLogFile[Len(chatLogFile)].request = resp.request
        /\ chatLogFile[Len(chatLogFile)].content \in DeskTexts

----------------------------------------------------------------------------
(* The counters under interleaved sends and responds *)

\* End users write and the admin responds; the requests interleave at their
\* suspension points; the clock stands.
CountNext ==
    \/ \E r \in Slots, c \in Clients : Send(r, c, UnmatchedText)
    \/ \E r \in Slots : SendAiDone(r, "completion")
    \/ \E r \in Slots : SendWriteChatLog(r, TRUE)
    \/ \E r \in Slots : SendReadAnalytics(r)
    \/ \E r \in Slots : SendWriteAnalytics(r, TRUE)
    \/ \E r \in Slots : SendNotified(r, TRUE)
    \/ \E r \in Slots, c \in Clients, m \in AdminTexts : Respond(r, c, m, AdminToken)
    \/ \E r \in Slots : RespondSteps(r)

SpecCount == Init /\ [][CountNext]_vars

----------------------------------------------------------------------------
(* C30 *)

\* C30: when every request has completed, today's bucket counts them: its
\* total is the number of sends and responds answered, and its admin counter
\* the number of responds answered.
C30_NoIncrementLost ==
    NoneInFlight =>
        /\ TodayStats(analyticsFile, now).total = Successes
        /\ TodayStats(analyticsFile, now).admin = Cardinality(Sent)

----------------------------------------------------------------------------
(* POST /api/chat/feedback *)

\* messageId as parseInt gives it: an index into the log, counted from 0
MessageIds == 0..2

Ratings == {"positive", "negative", "neutral"}

\* { keywords: ['feedback'] }: the pattern the handler names to updatePattern
FeedbackPattern == [keywords |-> << <<6,5,5,4,2,1,3,11>> >>]

\* the entry the handler pushes onto analytics.feedback
FeedbackEntry(messageIndex, rating, t, clientId) ==
    [messageId |-> messageIndex, rating |-> rating, timestamp |-> t,
     clientId |-> clientId]

NotFound(n) == Response(n, 404, [error |-> "Message not found"])

\* the log is read; an index outside it is answered with 404; for a chatbot
\* message updatePattern is called on the pattern of keywords ['feedback'],
\* and where the pattern set holds one its write is awaited; otherwise the
\* handler goes on to read the analytics document
Feedback(r, messageId, rating, clientId) ==
    /\ FreeSlot(r)
    /\ Len(accepted) < MaxRequests
    /\ accepted' = Append(accepted, clientId)
    /\ IF messageId >= 0 /\ messageId < Len(chatLogFile)
       THEN LET message == chatLogFile[messageId + 1]
                updated == UpdatePattern(knowledgeBase, FeedbackPattern, rating)
                request == [kind |-> "feedback", n |-> NextRequest,
                            clientId |-> clientId, messageId |-> messageId,
                            rating |-> rating, role |-> message.role,
                            replyOf |-> message.request]
            IN  /\ UNCHANGED responses
                /\ IF /\ message.role = "chatbot"
                      /\ FindIndex(knowledgeBase, FeedbackPattern.keywords) # 0
                   THEN /\ knowledgeBase' = updated
                        /\ req' = [req EXCEPT ![r] =
                              [pc |-> "writeKnowledgeBase", kbData |-> updated] @@ request]
                   ELSE /\ UNCHANGED knowledgeBase
                        /\ req' = [req EXCEPT ![r] = [pc |-> "readAnalytics"] @@ request]
       ELSE /\ responses' = responses \cup {NotFound(NextRequest)}
            /\ UNCHANGED <<req, knowledgeBase>>
    /\ UNCHANGED <<now, files, kbLoaded, pollers, auth>>

\* the pattern write of updatePattern lands
FeedbackKnowledgeBaseWritten(r, ok) ==
    /\ req[r].kind = "feedback" /\ req[r].pc = "writeKnowledgeBase"
    /\ knowledgeBaseFile' = Written(knowledgeBaseFile, req[r].kbData, ok)
    /\ req' = [req EXCEPT ![r].pc = "readAnalytics"]
    /\ UNCHANGED <<now, chatLogFile, analyticsFile, adminSessionsFile, brain, accepted,
                   pollers, responses, auth>>

\* the analytics document is read and the feedback pushed in memory
FeedbackReadAnalytics(r) ==
    /\ req[r].kind = "feedback" /\ req[r].pc = "readAnalytics"
    /\ req' = [req EXCEPT ![r] =
          [analytics |->
              [analyticsFile EXCEPT !.feedback =
                  Append(@, FeedbackEntry(req[r].messageId, req[r].rating, now,
                                          req[r].clientId))]] @@
          [@ EXCEPT !.pc = "writeAnalytics"]]
    /\ UNCHANGED <<now, files, brain, accepted, pollers, responses, auth>>

\* the analytics write lands and the request is answered
FeedbackWriteAnalytics(r, ok) ==
    /\ req[r].kind = "feedback" /\ req[r].pc = "writeAnalytics"
    /\ analyticsFile' = Written(analyticsFile, req[r].analytics, ok)
    /\ responses' = responses \cup
          {Response(req[r].n, 200, [success |-> TRUE, message |-> "Feedback received"])}
    /\ req' = [req EXCEPT ![r] = Idle]
    /\ UNCHANGED <<now, chatLogFile, knowledgeBaseFile, adminSessionsFile, brain,
                   accepted, pollers, auth>>

----------------------------------------------------------------------------
(* The analytics document under every request that rewrites it *)

\* End users write and rate, the admin takes over and responds; the
\* requests interleave at their suspension points.
LedgerNext ==
    \/ Tick
    \/ \E r \in Slots, c \in Clients : Send(r, c, UnmatchedText)
    \/ \E r \in Slots : SendAiDone(r, "completion")
    \/ \E r \in Slots : SendWriteChatLog(r, TRUE)
    \/ \E r \in Slots : SendReadAnalytics(r)
    \/ \E r \in Slots : SendWriteAnalytics(r, TRUE)
    \/ \E r \in Slots : SendNotified(r, TRUE)
    \/ \E r \in Slots, c \in Clients : Takeover(r, c, AdminToken)
    \/ \E r \in Slots : TakeoverSteps(r)
    \/ \E r \in Slots, c \in Clients, m \in AdminTexts : Respond(r, c, m, AdminToken)
    \/ \E r \in Slots : RespondSteps(r)
    \/ \E r \in Slots, i \in MessageIds, c \in Clients : Feedback(r, i, "positive", c)
    \/ \E r \in Slots : FeedbackReadAnalytics(r)
    \/ \E r \in Slots : FeedbackWriteAnalytics(r, TRUE)

SpecLedger == Init /\ [][LedgerNext]_vars

----------------------------------------------------------------------------
(* C31 *)

Counters == {"total", "chatbot", "ai", "admin"}

\* C31: in every step each day bucket of the analytics document is still
\* there afterwards, and none of its counters total, chatbot, ai and admin
\* is lower than before.
C31_BucketsOnlyGrow ==
    [][\A d \in DOMAIN analyticsFile.days :
          /\ d \in DOMAIN analyticsFile'.days
          /\ \A k \in Counters :
                analyticsFile'.days[d][k] >= analyticsFile.days[d][k]]_vars

----------------------------------------------------------------------------
(* GET /api/analytics/stats *)

\* The calendar of moment, by day: day 0 is Thursday 1 January 1970, and the
\* days are those of 1970.

\* the first days of the months of 1970, and the first day of 1971
FirstDays == <<0, 31, 59, 90, 120, 151, 181, 212, 243, 273, 304, 334, 365>>

\* moment.startOf('week'): the Sunday on or before the day
StartOfWeek(day) == day - ((day + 4) % 7)

\* moment.startOf('month')
StartOfMonth(day) ==
    CHOOSE first \in {FirstDays[i] : i \in DOMAIN FirstDays} :
        /\ first <= day
        /\ \A i \in DOMAIN FirstDays : FirstDays[i] <= day => FirstDays[i] <= first

\* moment.endOf('month')
EndOfMonth(day) ==
    (CHOOSE next \in {FirstDays[i] : i \in DOMAIN FirstDays} :
        /\ next > day
        /\ \A i \in DOMAIN FirstDays : FirstDays[i] > day => FirstDays[i] >= next) - 1

\* analytics[day] || { total: 0, chatbot: 0, ai: 0, admin: 0 }
DayStats(analytics, day) ==
    IF day \in DOMAIN analytics.days THEN analytics.days[day] ELSE EmptyBucket

\* the loops of the weekly and the monthly case: the buckets of the days
\* from..to added up
RECURSIVE SumDays(_, _, _)
SumDays(analytics, from, to) ==
    IF from > to THEN EmptyBucket
    ELSE LET dayStats == DayStats(analytics, from)
             rest == SumDays(analytics, from + 1, to)
         IN  [total |-> dayStats.total + rest.total,
              chatbot |-> dayStats.chatbot + rest.chatbot,
              ai |-> dayStats.ai + rest.ai,
              admin |-> dayStats.admin + rest.admin]

\* Math.round((part / total) * 100)
Percent(part, total) == (200 * part + total) \div (2 * total)

Periods == {"daily", "weekly", "monthly"}

\* the switch of the handler.  startOf and endOf change the moment they are
\* called on and return it: in the monthly case monthStart and monthEnd are
\* both the moment `now`, which endOf has left on the last day of the month.
PeriodStats(analytics, period, today) ==
    IF period = "daily" THEN DayStats(analytics, today)
    ELSE IF period = "weekly"
    THEN LET weekStart == StartOfWeek(today)
         IN  SumDays(analytics, weekStart, weekStart + 6)
    ELSE LET startOfMonth == StartOfMonth(today)
             endOfMonth == EndOfMonth(startOfMonth)
             monthStart == endOfMonth
             monthEnd == endOfMonth
         IN  SumDays(analytics, monthStart, monthEnd)

\* the role distribution is added when the total is positive
WithRoleDistribution(stats) ==
    IF stats.total > 0
    THEN [roleDistribution |->
             [chatbot |-> Percent(stats.chatbot, stats.total),
              ai |-> Percent(stats.ai, stats.total),
              admin |-> Percent(stats.admin, stats.total)]] @@ stats
    ELSE stats

\* the analytics document is read
Stats(r, period) ==
    /\ FreeSlot(r)
    /\ req' = [req EXCEPT ![r] =
          [kind |-> "stats", pc |-> "readChatLog", n |-> 0, period |-> period,
           analytics |-> analyticsFile]]
    /\ UNCHANGED <<now, files, brain, accepted, pollers, responses, auth>>

\* the log is read, the period summed and the request answered
StatsReadChatLog(r) ==
    /\ req[r].kind = "stats" /\ req[r].pc = "readChatLog"
    /\ polled' = Read("stats", Undefined, 200,
                      [period |-> req[r].period,
                       stats |-> WithRoleDistribution(
                                    PeriodStats(req[r].analytics, req[r].period,
                                                Today(now))),
                       messageCount |-> Len(chatLogFile),
                       timestamp |-> now])
    /\ req' = [req EXCEPT ![r] = Idle]
    /\ UNCHANGED <<now, files, brain, accepted, lastMessageTimestamp, received,
                   analyzed, responses, auth>>

\* the days of the requests: Saturday 3, Sunday 4, Saturday 10 and Sunday 11
\* January
StatsDays == {2, 3, 9, 10}

\* what a bucket may hold
StatsBuckets == { [total |-> 1, chatbot |-> 1, ai |-> 0, admin |-> 0],
                  [total |-> 3, chatbot |-> 0, ai |-> 2, admin |-> 1] }

\* the analytics documents of a day: each day up to it with one of the
\* buckets or none
StatsDocuments(today) ==
    UNION { [days -> StatsBuckets] : days \in SUBSET {day \in StatsDays : day <= today} }

\* The server holds, on one of the days, an analytics document of the days
\* so far.
StatsInit ==
    /\ now \in {day * DayLength + 1 : day \in StatsDays}
    /\ chatLogFile = <<>>
    /\ \E days \in StatsDocuments(Today(now)) :
          analyticsFile = [days |-> days, adminTakeovers |-> <<>>, feedback |-> <<>>]
    /\ knowledgeBaseFile = <<>>
    /\ adminSessionsFile = [t \in {AdminToken} |-> NewSession(AdminTelegramId, 1)]
    /\ knowledgeBase = <<>>
    /\ kbLoaded = TRUE
    /\ req = [r \in Slots |-> Idle]
    /\ accepted = <<>>
    /\ polled = NoPoll
    /\ lastMessageTimestamp = 0
    /\ received = {}
    /\ analyzed = NoCall
    /\ responses = {}
    /\ authCodes = <<>>
    /\ codesIssued = 0

StatsNext ==
    \/ \E period \in Periods : Stats(1, period)
    \/ StatsReadChatLog(1)

SpecStats == StatsInit /\ [][StatsNext]_vars

----------------------------------------------------------------------------
(* C32 *)

\* the days of the period of a day: the day, its week from Sunday to
\* Saturday, its calendar month
PeriodDays(period, today) ==
    IF period = "daily" THEN {today}
    ELSE IF period = "weekly"
    THEN {day \in (today - 6)..(today + 6) : (day + 4) \div 7 = (today + 4) \div 7}
    ELSE {day \in 0..364 :
             \E i \in 1..12 : /\ FirstDays[i] <= day /\ day < FirstDays[i + 1]
                              /\ FirstDays[i] <= today /\ today < FirstDays[i + 1]}

\* the sum of a counter over the buckets of a set of days
RECURSIVE Total(_, _, _)
Total(analytics, days, counter) ==
    IF days = {} THEN 0
    ELSE LET day == CHOOSE d \in days : TRUE
         IN  (IF day \in DOMAIN analytics.days THEN analytics.days[day][counter] ELSE 0)
             + Total(analytics, days \ {day}, counter)

\* C32: the stats answered for a period are, counter by counter, the sums
\* over the buckets of today (daily), of the seven days of the current week
\* (weekly) and of all days of the current month (monthly), a day without a
\* bucket counting as zero.
C32_StatsSumThePeriod ==
    ("route" \in DOMAIN polled /\ polled.route = "stats") =>
        \A counter \in Counters :
            polled.body.stats[counter] =
                Total(analyticsFile, PeriodDays(polled.body.period, Today(now)), counter)

----------------------------------------------------------------------------
(* Validation of send *)

\* "Altın para transfer", the empty text, and texts of 1000 and of 1001
\* letters
ValidatedTexts ==
    { <<101,12,20,29,14,0,16,1,18,1,0,20,18,1,14,19,6,5,18>>, <<>>,
      [i \in 1..MaxMessageLength |-> 1],
      [i \in 1..(MaxMessageLength + 1) |-> 1] }

\* End users send texts of any length under any client id, one request at a
\* time; the clock stands.
ValidateNext ==
    \/ LoadKnowledgeBase
    \/ \E c \in SendClientIds, m \in ValidatedTexts : SendRejected(c, m)
    \/ NoneInFlight /\ \E c \in SendClientIds, m \in ValidatedTexts : Send(1, c, m)
    \/ SendKnowledgeBaseWritten(1, TRUE)
    \/ SendAiDone(1, "completion")
    \/ SendWriteChatLog(1, TRUE)
    \/ SendReadAnalytics(1)
    \/ SendWriteAnalytics(1, TRUE)
    \/ SendNotified(1, TRUE)

SpecValidate == Init /\ [][ValidateNext]_vars

----------------------------------------------------------------------------
(* C33 *)

\* the request is one the claim says send rejects
Malformed(clientId, message) ==
    \/ Len(message) = 0
    \/ Len(message) > 1000
    \/ clientId = Undefined
    \/ clientId \notin Clients

\* C33: a send whose text is empty or longer than 1000 characters, or whose
\* clientId is missing or invalid, is answered with a 400 and nothing else
\* happens: the log, the analytics document and the patterns stay as they
\* are, no request is taken up (so no responder tier runs), and every
\* other send is taken up.
C33_MalformedSendIsRejected ==
    [][\A c \in SendClientIds, m \in ValidatedTexts :
          (Send(1, c, m) \/ SendRejected(c, m)) =>
              IF Malformed(c, m)
              THEN /\ \E resp \in responses' : resp.status = 400 /\ resp.request = 0
                   /\ \A resp \in responses' \ responses : resp.status = 400
                   /\ UNCHANGED <<files, brain, req, accepted>>
              ELSE /\ req'[1].kind = "send"
                   /\ req'[1].message = m /\ req'[1].clientId = c]_vars

\* texts of 1001 letters and empty texts have been rejected, as has a
\* request without client id, while a text of 1000 letters was answered
C33_Witness ==
    /\ ValidationError("c1", <<>>) \in responses
    /\ ValidationError(Undefined, <<1>>) \in responses
    /\ \E resp \in responses : resp.status = 200
    /\ \E i \in DOMAIN chatLogFile : Len(chatLogFile[i].content) = MaxMessageLength

----------------------------------------------------------------------------
(* POST /api/admin/train *)

\* confidence = 0.8 when the request names none, and successRate: 0.8
DefaultTrainedConfidence == 80

\* what the admin teaches: the keywords "kargo" and "iade" with their replies
Lessons == { [keywords |-> << <<11,1,18,7,15>> >>, response |-> <<241>>],
             [keywords |-> << <<9,1,4,5>> >>, response |-> <<242>>] }

\* the pattern the handler builds from the request
NewPattern(lesson, t, adminId) ==
    [keywords |-> lesson.keywords, response |-> lesson.response,
     confidence |-> DefaultTrainedConfidence, usage |-> 0,
     successRate |-> DefaultTrainedConfidence, createdAt |-> t,
     createdBy |-> "admin", adminId |-> adminId]

\* the session is checked, the pattern file read and the new pattern pushed
\* in memory
Train(r, lesson, token) ==
    /\ FreeSlot(r)
    /\ Len(accepted) < MaxRequests
    /\ accepted' = Append(accepted, "admin")
    /\ IF SessionRejected(adminSessionsFile, token, now)
       THEN /\ responses' = responses \cup {Unauthorized}
            /\ UNCHANGED req
       ELSE /\ req' = [req EXCEPT ![r] =
                  [kind |-> "train", pc |-> "writeKnowledgeBase", n |-> NextRequest,
                   clientId |-> "admin",
                   kbData |-> Append(knowledgeBaseFile,
                                 NewPattern(lesson, now,
                                            TelegramIdOf(adminSessionsFile, token)))]]
            /\ UNCHANGED responses
    /\ UNCHANGED <<now, files, brain, pollers, auth>>

\* the write of the pattern file lands
TrainKnowledgeBaseWritten(r, ok) ==
    /\ req[r].kind = "train" /\ req[r].pc = "writeKnowledgeBase"
    /\ knowledgeBaseFile' = Written(knowledgeBaseFile, req[r].kbData, ok)
    /\ req' = [req EXCEPT ![r].pc = "loadKnowledgeBase"]
    /\ UNCHANGED <<now, chatLogFile, analyticsFile, adminSessionsFile, brain, accepted,
                   pollers, responses, auth>>

\* chatBot.loadKnowledgeBase() replaces the patterns in memory by those of
\* the file (by the defaults when the file holds none), and the request is
\* answered
TrainLoadKnowledgeBase(r) ==
    /\ req[r].kind = "train" /\ req[r].pc = "loadKnowledgeBase"
    /\ IF knowledgeBaseFile = <<>>
       THEN /\ knowledgeBase' = DefaultKnowledgeBase
            /\ knowledgeBaseFile' = DefaultKnowledgeBase
       ELSE /\ knowledgeBase' = knowledgeBaseFile
            /\ UNCHANGED knowledgeBaseFile
    /\ responses' = responses \cup
          {Response(req[r].n, 200,
                    [success |-> TRUE, patternId |-> Len(req[r].kbData) - 1,
                     message |-> "Pattern added successfully"])}
    /\ req' = [req EXCEPT ![r] = Idle]
    /\ UNCHANGED <<now, chatLogFile, analyticsFile, adminSessionsFile, kbLoaded,
                   accepted, pollers, auth>>

TrainSteps(r) ==
    \/ TrainKnowledgeBaseWritten(r, TRUE)
    \/ TrainLoadKnowledgeBase(r)

\* "Altın para transfer": the text the second default pattern answers
MatchedText == <<101,12,20,29,14,0,16,1,18,1,0,20,18,1,14,19,6,5,18>>

\* The admin teaches patterns while an end user gets chatbot replies; the
\* requests interleave at their suspension points.
TrainNext ==
    \/ Tick
    \/ LoadKnowledgeBase
    \/ \E r \in Slots, lesson \in Lessons : Train(r, lesson, AdminToken)
    \/ \E r \in Slots : TrainSteps(r)
    \/ \E r \in Slots : Send(r, "c1", MatchedText)
    \/ \E r \in Slots : SendKnowledgeBaseWritten(r, TRUE)
    \/ \E r \in Slots : SendAiDone(r, "completion")
    \/ \E r \in Slots : SendWriteChatLog(r, TRUE)
    \/ \E r \in Slots : SendReadAnalytics(r)
    \/ \E r \in Slots : SendWriteAnalytics(r, TRUE)
    \/ \E r \in Slots : SendNotified(r, TRUE)

SpecTrain == Init /\ [][TrainNext]_vars

----------------------------------------------------------------------------
(* C34 *)

\* the pattern set holds a pattern of these keywords and this response
Holds(kb, pattern) ==
    \E i \in DOMAIN kb :
        kb[i].keywords = pattern.keywords /\ kb[i].response = pattern.response

\* C34: in every step each pattern of the pattern set (the one the matcher
\* works on, and the one on file) is still in it afterwards.
C34_PatternsStay ==
    [][/\ \A i \in DOMAIN knowledgeBase : Holds(knowledgeBase', knowledgeBase[i])
       /\ \A i \in DOMAIN knowledgeBaseFile :
             Holds(knowledgeBaseFile', knowledgeBaseFile[i])]_vars

----------------------------------------------------------------------------
(* The send of src/unnamed/part_001: the route POST /api/chat/send of the
   server that answers from haydayKnowledge and logs its replies under the
   role assistant *)

\* haydayKnowledge.altinTransfer, .fiyatListesi and .depolama, the apology
\* for a completion without content, and the apology of the catch
AltinTransfer == <<251>>
FiyatListesi == <<252>>
Depolama == <<253>>
NoContentText == <<254>>
OpenaiErrorText == <<255>>

\* the if-chain over lowerMessage.includes: "altın" with "transfer" or
\* "gönder", "fiyat" or "liste", "depo" or "depolama"; the empty text when
\* the completion service is to be asked
KnowledgeReply(message) ==
    LET lowerMessage == ToLowerCase(message)
    IN  IF /\ Includes(lowerMessage, <<1,12,20,29,14>>)
           /\ \/ Includes(lowerMessage, <<20,18,1,14,19,6,5,18>>)
              \/ Includes(lowerMessage, <<7,30,14,4,5,18>>)
        THEN AltinTransfer
        ELSE IF \/ Includes(lowerMessage, <<6,9,25,1,20>>)
                \/ Includes(lowerMessage, <<12,9,19,20,5>>)
        THEN FiyatListesi
        ELSE IF \/ Includes(lowerMessage, <<4,5,16,15>>)
                \/ Includes(lowerMessage, <<4,5,16,15,12,1,13,1>>)
        THEN Depolama
        ELSE <<>>

\* completion.choices[0]?.message?.content || '...', and the text of the
\* catch when the call is rejected
AssistantCompletion(outcome) ==
    IF outcome = "completion" THEN AiCompletionText
    ELSE IF outcome = "noChoices" THEN NoContentText
    ELSE OpenaiErrorText

\* the user message and the reply of a send that took the time `timestamp`
\* when it was accepted
AssistantUserMessage(timestamp, clientId, message, n) ==
    [role |-> "user", content |-> message, timestamp |-> timestamp,
     clientId |-> clientId, request |-> n]

AssistantMessage(timestamp, clientId, aiResponse, n) ==
    [role |-> "assistant", content |-> aiResponse, timestamp |-> timestamp + 1,
     clientId |-> clientId, request |-> n]

\* a request without text or client id is answered with 400; otherwise the
\* time is taken and the log asked for
AssistantSend(r, clientId, message) ==
    /\ FreeSlot(r)
    /\ IF message = <<>> \/ clientId = Undefined
       THEN /\ responses' = responses \cup
                  {Response(0, 400, [error |-> "Message and clientId are required"])}
            /\ UNCHANGED <<req, accepted>>
       ELSE /\ Len(accepted) < MaxRequests
            /\ accepted' = Append(accepted, clientId)
            /\ req' = [req EXCEPT ![r] =
                  [kind |-> "assistantSend", pc |-> "readChatLog", n |-> NextRequest,
                   clientId |-> clientId, message |-> message, timestamp |-> now]]
            /\ UNCHANGED responses
    /\ UNCHANGED <<now, files, brain, pollers, auth>>

\* the log arrives and the user message is pushed; a text haydayKnowledge
\* covers is answered at once, for any other the completion service is asked
AssistantSendReadChatLog(r) ==
    /\ req[r].kind = "assistantSend" /\ req[r].pc = "readChatLog"
    /\ LET chatLog == Append(chatLogFile,
                         AssistantUserMessage(req[r].timestamp, req[r].clientId,
                                              req[r].message, req[r].n))
           aiResponse == KnowledgeReply(req[r].message)
       IN  req' = [req EXCEPT ![r] =
              IF aiResponse # <<>>
              THEN [pc |-> "writeChatLog", aiResponse |-> aiResponse,
                    chatLog |-> Append(chatLog,
                                    AssistantMessage(req[r].timestamp, req[r].clientId,
                                                     aiResponse, req[r].n))] @@ @
              ELSE [pc |-> "aiCall", chatLog |-> chatLog] @@ @]
    /\ UNCHANGED <<now, files, brain, accepted, pollers, responses, auth>>

\* the call of the completion service settles
AssistantSendAiDone(r, outcome) ==
    /\ req[r].kind = "assistantSend" /\ req[r].pc = "aiCall"
    /\ LET aiResponse == AssistantCompletion(outcome)
       IN  req' = [req EXCEPT ![r] =
              [pc |-> "writeChatLog", aiResponse |-> aiResponse,
               chatLog |-> Append(req[r].chatLog,
                               AssistantMessage(req[r].timestamp, req[r].clientId,
                                                aiResponse, req[r].n))] @@ @]
    /\ UNCHANGED <<now, files, brain, accepted, pollers, responses, auth>>

\* the write of the log lands
AssistantSendWriteChatLog(r) ==
    /\ req[r].kind = "assistantSend" /\ req[r].pc = "writeChatLog"
    /\ chatLogFile' = req[r].chatLog
    /\ req' = [req EXCEPT ![r].pc = "readAnalytics"]
    /\ UNCHANGED <<now, analyticsFile, knowledgeBaseFile, adminSessionsFile, brain,
                   accepted, pollers, responses, auth>>

\* updateAnalytics reads the analytics document and counts an ai message
\* (the totals over all days and the keyword counts are left out)
AssistantSendReadAnalytics(r) ==
    /\ req[r].kind = "assistantSend" /\ req[r].pc = "readAnalytics"
    /\ req' = [req EXCEPT ![r] =
          [pc |-> "writeAnalytics",
           analytics |-> RecordRole(analyticsFile, Today(now), "ai")] @@ @]
    /\ UNCHANGED <<now, files, brain, accepted, pollers, responses, auth>>

\* the write of updateAnalytics lands and the request is answered
AssistantSendWriteAnalytics(r) ==
    /\ req[r].kind = "assistantSend" /\ req[r].pc = "writeAnalytics"
    /\ analyticsFile' = req[r].analytics
    /\ responses' = responses \cup
          {Response(req[r].n, 200,
                    [success |-> TRUE, response |-> req[r].aiResponse,
                     timestamp |-> req[r].timestamp + 1])}
    /\ req' = [req EXCEPT ![r] = Idle]
    /\ UNCHANGED <<now, chatLogFile, knowledgeBaseFile, adminSessionsFile, brain,
                   accepted, pollers, auth>>

\* "altın transfer", "kargo", and no text
AssistantTexts == { <<1,12,20,29,14,0,20,18,1,14,19,6,5,18>>, <<11,1,18,7,15>>, <<>> }

\* End users write; the requests interleave at their suspension points.
AssistantNext ==
    \/ Tick
    \/ \E r \in Slots, c \in Clients \cup {Undefined}, m \in AssistantTexts :
          AssistantSend(r, c, m)
    \/ \E r \in Slots : AssistantSendReadChatLog(r)
    \/ \E r \in Slots, outcome \in {"completion", "noChoices", "rejected"} :
          AssistantSendAiDone(r, outcome)
    \/ \E r \in Slots : AssistantSendWriteChatLog(r)
    \/ \E r \in Slots : AssistantSendReadAnalytics(r)
    \/ \E r \in Slots : AssistantSendWriteAnalytics(r)

SpecAssistant == Init /\ [][AssistantNext]_vars

----------------------------------------------------------------------------
(* C35 *)

\* C35: the persisted log is in order of time: no message has a timestamp
\* lower than that of a message before it.
C35_LogIsOrderedByTime ==
    \A i, j \in DOMAIN chatLogFile :
        i < j => chatLogFile[i].timestamp <= chatLogFile[j].timestamp

----------------------------------------------------------------------------
(* C36 *)

\* the store holds a message of the role that request n appended
Stored(n, roles) ==
    \E i \in DOMAIN chatLogFile :
        chatLogFile[i].request = n /\ chatLogFile[i].role \in roles

\* the send in slot r has got as far as one of the positions
At(r, positions) == req[r].kind = "send" /\ req[r].pc \in positions

\* C36: a send whose matcher has run, or whose call of the completion
\* service is under way, has its user message in the store; once it has
\* gone on to the analytics its reply is in the store as well; and when it
\* pushes the notification the analytics document holds its count.
C36_SendStepsInOrder ==
    \A r \in Slots :
        /\ At(r, {"writeKnowledgeBase", "aiCall", "writeChatLog"}) =>
              Stored(req[r].n, {"user"})
        /\ At(r, {"readAnalytics", "writeAnalytics", "notify"}) =>
              Stored(req[r].n, {"user"}) /\ Stored(req[r].n, {"chatbot", "ai"})
        /\ At(r, {"notify"}) => analyticsFile = req[r].analytics

----------------------------------------------------------------------------
(* Feedback on the replies of the chatbot *)

\* An end user writes and rates the messages of the log, one request at a
\* time; the clock stands.
RatingNext ==
    \/ LoadKnowledgeBase
    \/ NoneInFlight /\ \E m \in {MatchedText, UnmatchedText} : Send(1, "c1", m)
    \/ SendKnowledgeBaseWritten(1, TRUE)
    \/ SendAiDone(1, "completion")
    \/ SendWriteChatLog(1, TRUE)
    \/ SendReadAnalytics(1)
    \/ SendWriteAnalytics(1, TRUE)
    \/ SendNotified(1, TRUE)
    \/ NoneInFlight /\ \E i \in MessageIds, rating \in Ratings : Feedback(1, i, rating, "c1")
    \/ FeedbackReadAnalytics(1)
    \/ FeedbackWriteAnalytics(1, TRUE)

SpecRating == Init /\ [][RatingNext]_vars

----------------------------------------------------------------------------
(* C37 *)

\* pattern k of the pattern set produced the logged reply
Produced(k, reply) ==
    reply.role = "chatbot" /\ knowledgeBase[k].response = reply.content

\* C37: feedback for a logged chatbot reply raises (positive) or lowers
\* (negative) the confidence of the pattern that produced the reply, within
\* the limits 0.1 and 1, and counts one more use of it; feedback for an index
\* outside the log is answered NotFound and changes nothing.
C37_FeedbackReachesThePattern ==
    [][\A i \in MessageIds, rating \in {"positive", "negative"} :
          Feedback(1, i, rating, "c1") =>
              IF i < Len(chatLogFile)
              THEN \A k \in DOMAIN knowledgeBase :
                      Produced(k, chatLogFile[i + 1]) =>
                          /\ knowledgeBase'[k].usage = knowledgeBase[k].usage + 1
                          /\ rating = "positive" =>
                                \/ knowledgeBase'[k].confidence > knowledgeBase[k].confidence
                                \/ knowledgeBase[k].confidence = 100
                          /\ rating = "negative" =>
                                \/ knowledgeBase'[k].confidence < knowledgeBase[k].confidence
                                \/ knowledgeBase[k].confidence = 10
              ELSE /\ \E resp \in responses' \ responses : resp.status = 404
                   /\ UNCHANGED <<files, brain, req>>]_vars

----------------------------------------------------------------------------
(* Reading a document that is being written *)

\* fs.writeFile has opened the log for the write the request awaits, and the
\* file is truncated
ChatLogWriteBegins(r) ==
    /\ req[r].pc = "writeChatLog"
    /\ Readable(chatLogFile)
    /\ chatLogFile' = Unreadable
    /\ UNCHANGED <<now, analyticsFile, knowledgeBaseFile, adminSessionsFile, brain, req,
                   accepted, pollers, responses, auth>>

\* GET /api/chat/history/:clientId: the log is read and filtered
History(clientId) ==
    /\ Readable(chatLogFile)
    /\ polled' = Read("history", Undefined, 200,
                      [history |-> MessagesOf(chatLogFile, clientId)])
    /\ UNCHANGED <<now, files, brain, req, accepted, lastMessageTimestamp, received,
                   analyzed, responses, auth>>

ReadingRoutes == {"poll", "history"}

\* the readJSONFile of a poll or a history request fails on the log: its
\* catch calls writeJSONFile(filePath, defaultValue) and awaits it
ReadJSONFileFailed(r, route, clientId, after) ==
    /\ FreeSlot(r)
    /\ ~Readable(chatLogFile)
    /\ req' = [req EXCEPT ![r] =
          [kind |-> "read", pc |-> "writeDefault", n |-> 0, route |-> route,
           clientId |-> clientId, after |-> after]]
    /\ UNCHANGED <<now, files, brain, accepted, pollers, responses, auth>>

\* the write of the default value lands, readJSONFile returns the default
\* value and the handler answers from it
ReadJSONFileDefaultWritten(r, ok) ==
    /\ req[r].kind = "read" /\ req[r].pc = "writeDefault"
    /\ chatLogFile' = Written(chatLogFile, <<>>, ok)
    /\ polled' = IF req[r].route = "poll"
                 THEN [clientId |-> req[r].clientId, after |-> req[r].after,
                       data |-> PollResponse(<<>>, req[r].clientId, req[r].after)]
                 ELSE Read("history", Undefined, 200, [history |-> <<>>])
    /\ req' = [req EXCEPT ![r] = Idle]
    /\ UNCHANGED <<now, analyticsFile, knowledgeBaseFile, adminSessionsFile, brain,
                   accepted, lastMessageTimestamp, received, analyzed, responses, auth>>

\* The admin responds, one request at a time, and its write of the log
\* takes time; meanwhile clients poll and ask for their history.
ReadingNext ==
    \/ Tick
    \/ NoneInFlight /\ \E c \in Clients, m \in AdminTexts : Respond(1, c, m, AdminToken)
    \/ ChatLogWriteBegins(1)
    \/ RespondSteps(1)
    \/ \E c \in Clients, a \in Afters : Poll(c, a)
    \/ \E c \in Clients : History(c)
    \/ \E route \in ReadingRoutes, c \in Clients, a \in Afters :
          ReadJSONFileFailed(2, route, c, a)
    \/ ReadJSONFileDefaultWritten(2, TRUE)

SpecReading == Init /\ [][ReadingNext]_vars

----------------------------------------------------------------------------
(* C38 *)

\* a step of a poll or a history request
ReadOnlyStep ==
    \/ \E c \in Clients, a \in Afters : Poll(c, a)
    \/ \E c \in Clients : History(c)
    \/ \E route \in ReadingRoutes, c \in Clients, a \in Afters :
          ReadJSONFileFailed(2, route, c, a)
    \/ ReadJSONFileDefaultWritten(2, TRUE)

\* C38: no step of a read-only request changes the log, the analytics
\* document or the patterns, whether or not the document it reads is being
\* written or can be parsed.
C38_ReadsChangeNothing ==
    [][ReadOnlyStep =>
          UNCHANGED <<chatLogFile, analyticsFile, knowledgeBaseFile, knowledgeBase>>]_vars

----------------------------------------------------------------------------
(* C39 *)

\* C39: in every day bucket of the analytics document the total is the sum
\* of the counters of the three roles.
C39_TotalIsSumOfRoles ==
    \A day \in DOMAIN analyticsFile.days :
        analyticsFile.days[day].total =
            analyticsFile.days[day].chatbot + analyticsFile.days[day].ai
            + analyticsFile.days[day].admin

\* a send and a respond have been answered and both are counted in today's
\* bucket, one under ai and one under admin
C39_Witness ==
    /\ NoneInFlight
    /\ Successes = 2
    /\ Cardinality(Sent) = 1
    /\ TodayStats(analyticsFile, now).ai = 1
    /\ TodayStats(analyticsFile, now).admin = 1
    /\ TodayStats(analyticsFile, now).total = 2

----------------------------------------------------------------------------
(* C40 *)

\* the sends answered with a reply
Replied200 == {resp \in responses : resp.status = 200 /\ IsReply(resp.body)}

\* C40: what a send answers is the reply it logged: the log holds a message
\* of that request with the text, the role, the confidence and the timestamp
\* of the answer.
C40_AnswerIsTheLoggedReply ==
    \A resp \in Replied200 :
        \E i \in DOMAIN chatLogFile :
            /\ chatLogFile[i].request = resp.request
            /\ chatLogFile[i].content = resp.body.reply
            /\ chatLogFile[i].role = resp.body.role
            /\ chatLogFile[i].confidence = resp.body.confidence
            /\ chatLogFile[i].timestamp = resp.body.timestamp

====
